---- MODULE Spec2Model ----
(***************************************************************************)
(* Model of the classical-cipher toolkit: backend/utils/ciphers.js         *)
(* (src/unnamed/part_002), backend/utils/attacks.js                        *)
(* (src/unnamed/part_001), the Diffie-Hellman and pbkdf2 functions of      *)
(* backend/utils/secure.js, the request handlers of backend/server.js      *)
(* (/register, /login, /dh, /simulate/mitm, /user/<name>) and the          *)
(* Diffie-Hellman client of frontend/app.js.                               *)
(*                                                                         *)
(* A JavaScript string is a sequence of character codes (ASCII range).     *)
(* A thrown exception is an outcome: err = "InvalidKey" for the            *)
(* `throw new Error(...)` statements of the ciphers, err = "TypeError"     *)
(* for a destructuring of null.                                            *)
(***************************************************************************)
EXTENDS Integers, Sequences, FiniteSets, TLC

VARIABLES cipher, pc, text, params, ciphertext, result, encErr, decErr,
          i, results, matrix,
          words, ret, dictFile, users, log, response

\* The state of a run of the attack engine (attacks.js) and of the server
\* (server.js): see "State of an attack run" and "State of the server".
attackVars == <<words, ret, dictFile, users, log, response>>

vars == <<cipher, pc, text, params, ciphertext, result, encErr, decErr,
          i, results, matrix, attackVars>>

----------------------------------------------------------------------------
(* Bounds of the model *)

MaxCaesarLen == 2
MaxAffineLen == 2
MaxAbsA == 30
MaxExtraB == 1
MaxPlayfairLen == 4
MaxKeyLen == 3
MaxHillLen == 4
MaxHillEntry == 3

(* Program constants *)

AlphabetSize == 26
UpperA == 65
UpperZ == 90
LowerA == 97
LowerZ == 122
CharJ == 74
CharI == 73
CharX == 88

(* null (modInverse, findPosition) and undefined (text[i] out of range) *)
Null == -1
Undefined == -2

Texts(chars, n) == UNION {[1..k -> chars] : k \in 0..n}

----------------------------------------------------------------------------
(* JavaScript arithmetic *)

Abs(n) == IF n < 0 THEN -n ELSE n

\* The remainder operator n % m of JavaScript: the sign follows the dividend.
JsRem(n, m) == IF n < 0 THEN -(Abs(n) % Abs(m)) ELSE n % Abs(m)

RECURSIVE gcd(_, _)
gcd(x, y) == IF y # 0 THEN gcd(y, JsRem(x, y)) ELSE x

\* mod without the sign correction: the bare remainder of JavaScript
modTruncated(n, m) == JsRem(n, m)

mod(n, m) == JsRem(JsRem(n, m) + m, m)

modInverse(x, m) ==
  LET a0 == JsRem(JsRem(x, m) + m, m)
      hits == {y \in 1..(m - 1) : JsRem(a0 * y, m) = 1}
  IN  IF hits = {} THEN Null
      ELSE CHOOSE y \in hits : \A z \in hits : y <= z

----------------------------------------------------------------------------
(* Characters *)

IsLower(ch) == ch >= LowerA /\ ch <= LowerZ
IsUpper(ch) == ch >= UpperA /\ ch <= UpperZ

Map(f(_), s) == [k \in 1..Len(s) |-> f(s[k])]

----------------------------------------------------------------------------
(* Caesar *)

\* caesarEncrypt rebuilding a lower-case letter from the upper-case base
caesarEncryptUpperBase(t, shift) ==
  LET enc(ch) ==
        IF IsLower(ch) THEN mod(ch - LowerA + shift, AlphabetSize) + UpperA
        ELSE IF IsUpper(ch) THEN mod(ch - UpperA + shift, AlphabetSize) + UpperA
        ELSE ch
  IN  Map(enc, t)

caesarEncrypt(t, shift) ==
  LET enc(ch) ==
        IF IsLower(ch) THEN mod(ch - LowerA + shift, AlphabetSize) + LowerA
        ELSE IF IsUpper(ch) THEN mod(ch - UpperA + shift, AlphabetSize) + UpperA
        ELSE ch
  IN  Map(enc, t)

caesarDecrypt(t, shift) == caesarEncrypt(t, -shift)

----------------------------------------------------------------------------
(* Affine.  A call returns [err, value]; value is only meaningful when      *)
(* err = "none".                                                            *)

Ok(v) == [err |-> "none", value |-> v]
Raise(e) == [err |-> e, value |-> <<>>]

\* affineEncrypt with a parity test in place of the gcd test
affineEncryptParityTest(t, a, b) ==
  LET enc(ch) ==
        IF IsLower(ch) THEN mod(a * (ch - LowerA) + b, AlphabetSize) + LowerA
        ELSE IF IsUpper(ch) THEN mod(a * (ch - UpperA) + b, AlphabetSize) + UpperA
        ELSE ch
  IN  IF JsRem(a, 2) = 0 THEN Raise("InvalidKey")
      ELSE Ok(Map(enc, t))

affineEncrypt(t, a, b) ==
  LET enc(ch) ==
        IF IsLower(ch) THEN mod(a * (ch - LowerA) + b, AlphabetSize) + LowerA
        ELSE IF IsUpper(ch) THEN mod(a * (ch - UpperA) + b, AlphabetSize) + UpperA
        ELSE ch
  IN  IF gcd(a, AlphabetSize) # 1 THEN Raise("InvalidKey")
      ELSE Ok(Map(enc, t))

\* affineDecrypt multiplying by a itself instead of its inverse
affineDecryptNoInverse(t, a, b) ==
  LET aInv == modInverse(a, AlphabetSize)
      dec(ch) ==
        IF IsLower(ch) THEN mod(a * ((ch - LowerA) - b), AlphabetSize) + LowerA
        ELSE IF IsUpper(ch) THEN mod(a * ((ch - UpperA) - b), AlphabetSize) + UpperA
        ELSE ch
  IN  IF aInv = Null THEN Raise("InvalidKey")
      ELSE Ok(Map(dec, t))

affineDecrypt(t, a, b) ==
  LET aInv == modInverse(a, AlphabetSize)
      dec(ch) ==
        IF IsLower(ch) THEN mod(aInv * ((ch - LowerA) - b), AlphabetSize) + LowerA
        ELSE IF IsUpper(ch) THEN mod(aInv * ((ch - UpperA) - b), AlphabetSize) + UpperA
        ELSE ch
  IN  IF aInv = Null THEN Raise("InvalidKey")
      ELSE Ok(Map(dec, t))

----------------------------------------------------------------------------
(* Playfair *)

Range(s) == {s[k] : k \in 1..Len(s)}

\* s[k] of JavaScript, k counted from 0: undefined past the end
At(s, k) == IF k >= 0 /\ k < Len(s) THEN s[k + 1] ELSE Undefined

\* s.slice(from, to) of JavaScript, for 0 <= from <= to
Slice(s, from, to) ==
  LET last == IF to < Len(s) THEN to ELSE Len(s)
  IN  IF from >= last THEN <<>> ELSE SubSeq(s, from + 1, last)

toUpperCase(s) ==
  LET up(ch) == IF IsLower(ch) THEN ch - (LowerA - UpperA) ELSE ch
  IN  Map(up, s)

\* .replace(/J/g, 'I')
ReplaceJ(s) ==
  LET merge(ch) == IF ch = CharJ THEN CharI ELSE ch
  IN  Map(merge, s)

\* .replace(/[^A-Z]/g, '')
StripNonLetters(s) == SelectSeq(s, IsUpper)

\* 'ABCDEFGHIKLMNOPQRSTUVWXYZ'
PlayfairAlphabet ==
  [k \in 1..(AlphabetSize - 1) |-> IF UpperA + k - 1 < CharJ THEN UpperA + k - 1
                                   ELSE UpperA + k]

\* The two loops of buildPlayfairMatrix: from s[k] on (k counted from 0),
\* push every character not seen yet.  (seen holds exactly the characters
\* pushed so far.)
RECURSIVE PushUnseen(_, _, _)
PushUnseen(m, s, k) ==
  IF ~(k < Len(s)) THEN m
  ELSE PushUnseen(IF \E j \in 1..Len(m) : m[j] = s[k + 1] THEN m
                  ELSE Append(m, s[k + 1]),
                  s, k + 1)

\* buildPlayfairMatrix that pushes the key's letters without the seen test
buildPlayfairMatrixNoDedup(key) ==
  LET keyUpper == StripNonLetters(ReplaceJ(toUpperCase(key)))
      flat == PushUnseen(keyUpper, PlayfairAlphabet, 0)
  IN  [r \in 1..5 |-> Slice(flat, (r - 1) * 5, r * 5)]

buildPlayfairMatrix(key) ==
  LET keyUpper == StripNonLetters(ReplaceJ(toUpperCase(key)))
      flat == PushUnseen(PushUnseen(<<>>, keyUpper, 0), PlayfairAlphabet, 0)
  IN  [r \in 1..5 |-> Slice(flat, (r - 1) * 5, r * 5)]

\* findPosition returns [row, col] (counted from 0) or null
NullPos == <<>>

\* The scan of findPosition from cell k (row-major, k = 5 * row + col)
RECURSIVE FindFrom(_, _, _)
FindFrom(m, ch, k) ==
  IF k >= 25 THEN NullPos
  ELSE LET row == k \div 5
           col == k % 5
       IN  IF row < Len(m) /\ At(m[row + 1], col) = ch THEN <<row, col>>
           ELSE FindFrom(m, ch, k + 1)

findPosition(m, ch) == FindFrom(m, ch, 0)

RECURSIVE Digrams(_, _)
Digrams(t, k) ==
  IF ~(k < Len(t)) THEN <<>>
  ELSE LET a == At(t, k)
           b == IF k + 1 < Len(t) THEN At(t, k + 1) ELSE CharX
       IN  IF a = b THEN <<<<a, CharX>>>> \o Digrams(t, k + 1)
           ELSE <<<<a, b>>>> \o Digrams(t, k + 2)

preparePlayfairText(t) == Digrams(StripNonLetters(ReplaceJ(toUpperCase(t))), 0)

\* One pass of the loop body of playfairEncrypt (dir = 1) or playfairDecrypt
\* (dir = -1) on the pair (c1, c2): the two characters appended to result,
\* or the TypeError of destructuring a null position.
PlayfairPair(m, c1, c2, dir) ==
  LET p1 == findPosition(m, c1)
      p2 == findPosition(m, c2)
  IN  IF p1 = NullPos \/ p2 = NullPos THEN Raise("TypeError")
      ELSE IF p1[1] = p2[1]
             THEN Ok(<<m[p1[1] + 1][mod(p1[2] + dir, 5) + 1],
                       m[p2[1] + 1][mod(p2[2] + dir, 5) + 1]>>)
      ELSE IF p1[2] = p2[2]
             THEN Ok(<<m[mod(p1[1] + dir, 5) + 1][p1[2] + 1],
                       m[mod(p2[1] + dir, 5) + 1][p2[2] + 1]>>)
      ELSE Ok(<<m[p1[1] + 1][p2[2] + 1], m[p2[1] + 1][p1[2] + 1]>>)

RECURSIVE PlayfairEncryptLoop(_, _, _)
PlayfairEncryptLoop(m, digrams, acc) ==
  IF digrams = <<>> THEN Ok(acc)
  ELSE LET r == PlayfairPair(m, Head(digrams)[1], Head(digrams)[2], 1)
       IN  IF r.err # "none" THEN r
           ELSE PlayfairEncryptLoop(m, Tail(digrams), acc \o r.value)

\* playfairEncrypt without the merge of J into I
playfairEncryptNoMerge(t, key) ==
  PlayfairEncryptLoop(buildPlayfairMatrix(key),
                      Digrams(StripNonLetters(toUpperCase(t)), 0), <<>>)

playfairEncrypt(t, key) ==
  PlayfairEncryptLoop(buildPlayfairMatrix(key), preparePlayfairText(t), <<>>)

\* The loop of playfairDecrypt over the pairs (t[k], t[k + 1]), k = 0, 2, ...
\* dir is the direction of the row and column moves: -1 in the code.
RECURSIVE PlayfairDecryptLoop(_, _, _, _, _)
PlayfairDecryptLoop(m, t, k, acc, dir) ==
  IF ~(k < Len(t)) THEN Ok(acc)
  ELSE LET r == PlayfairPair(m, At(t, k), At(t, k + 1), dir)
       IN  IF r.err # "none" THEN r
           ELSE PlayfairDecryptLoop(m, t, k + 2, acc \o r.value, dir)

\* playfairDecrypt moving right and down, as playfairEncrypt does
playfairDecryptSameDirection(t, key) ==
  PlayfairDecryptLoop(buildPlayfairMatrix(key),
                      StripNonLetters(toUpperCase(t)), 0, <<>>, 1)

playfairDecrypt(t, key) ==
  PlayfairDecryptLoop(buildPlayfairMatrix(key),
                      StripNonLetters(toUpperCase(t)), 0, <<>>, -1)

----------------------------------------------------------------------------
(* Hill 3x3.  Matrices are <<row, row, row>>; the code's m[r][c] (from 0)   *)
(* is m[r + 1][c + 1].                                                     *)

\* NaN: what the arithmetic gives on an undefined vector entry.  It only
\* ever stands in a vector returned by matrixVectorMult3, whose numbers
\* are in 0..25.
NaN == -3

det3x3(m) ==
    m[1][1] * (m[2][2] * m[3][3] - m[2][3] * m[3][2])
  - m[1][2] * (m[2][1] * m[3][3] - m[2][3] * m[3][1])
  + m[1][3] * (m[2][1] * m[3][2] - m[2][2] * m[3][1])

\* adjugate3x3 returning the cofactor matrix itself, not its transpose
adjugate3x3NoTranspose(m) ==
  LET c00 ==  (m[2][2] * m[3][3] - m[2][3] * m[3][2])
      c01 == -(m[2][1] * m[3][3] - m[2][3] * m[3][1])
      c02 ==  (m[2][1] * m[3][2] - m[2][2] * m[3][1])
      c10 == -(m[1][2] * m[3][3] - m[1][3] * m[3][2])
      c11 ==  (m[1][1] * m[3][3] - m[1][3] * m[3][1])
      c12 == -(m[1][1] * m[3][2] - m[1][2] * m[3][1])
      c20 ==  (m[1][2] * m[2][3] - m[1][3] * m[2][2])
      c21 == -(m[1][1] * m[2][3] - m[1][3] * m[2][1])
      c22 ==  (m[1][1] * m[2][2] - m[1][2] * m[2][1])
  IN  <<<<c00, c01, c02>>, <<c10, c11, c12>>, <<c20, c21, c22>>>>

adjugate3x3(m) ==
  LET c00 ==  (m[2][2] * m[3][3] - m[2][3] * m[3][2])
      c01 == -(m[2][1] * m[3][3] - m[2][3] * m[3][1])
      c02 ==  (m[2][1] * m[3][2] - m[2][2] * m[3][1])
      c10 == -(m[1][2] * m[3][3] - m[1][3] * m[3][2])
      c11 ==  (m[1][1] * m[3][3] - m[1][3] * m[3][1])
      c12 == -(m[1][1] * m[3][2] - m[1][2] * m[3][1])
      c20 ==  (m[1][2] * m[2][3] - m[1][3] * m[2][2])
      c21 == -(m[1][1] * m[2][3] - m[1][3] * m[2][1])
      c22 ==  (m[1][1] * m[2][2] - m[1][2] * m[2][1])
  IN  <<<<c00, c10, c20>>, <<c01, c11, c21>>, <<c02, c12, c22>>>>

\* inverseMatrix3x3Mod26 without the test of the determinant
inverseMatrix3x3Mod26NoCheck(m) ==
  LET detMod == mod(det3x3(m), AlphabetSize)
      detInv == modInverse(detMod, AlphabetSize)
      adj == adjugate3x3(m)
  IN  Ok([r \in 1..3 |-> [c \in 1..3 |-> mod(detInv * adj[r][c], AlphabetSize)]])

inverseMatrix3x3Mod26(m) ==
  LET detMod == mod(det3x3(m), AlphabetSize)
      detInv == modInverse(detMod, AlphabetSize)
      adj == adjugate3x3(m)
  IN  IF gcd(detMod, AlphabetSize) # 1 THEN Raise("InvalidKey")
      ELSE Ok([r \in 1..3 |-> [c \in 1..3 |-> mod(detInv * adj[r][c], AlphabetSize)]])

matrixVectorMult3(m, vector) ==
  [r \in 1..3 |->
     IF \E j \in 0..2 : At(vector, j) = Undefined THEN NaN
     ELSE mod(m[r][1] * vector[1] + m[r][2] * vector[2] + m[r][3] * vector[3],
              AlphabetSize)]

textToVector(t) ==
  LET code(ch) == toUpperCase(<<ch>>)[1] - UpperA
      num(ch) == IF code(ch) >= 0 /\ code(ch) < AlphabetSize THEN code(ch) ELSE 0
  IN  Map(num, t)

\* String.fromCharCode(NaN) is the character of code 0
vectorToText(vector) ==
  LET chr(n) == IF n = NaN THEN 0 ELSE mod(n, AlphabetSize) + UpperA
  IN  Map(chr, vector)

RECURSIVE PadX(_)
PadX(t) == IF Len(t) % 3 # 0 THEN PadX(Append(t, CharX)) ELSE t

\* One pass of the block loop of hillEncrypt / hillDecrypt at offset k
HillBlock(m, t, k) == vectorToText(matrixVectorMult3(m, textToVector(Slice(t, k, k + 3))))

RECURSIVE HillEncryptLoop(_, _, _, _)
HillEncryptLoop(m, t, k, acc) ==
  IF ~(k < Len(t)) THEN acc
  ELSE HillEncryptLoop(m, t, k + 3, acc \o HillBlock(m, t, k))

\* hillEncrypt without the removal of the non-letters
hillEncryptNoStrip(t, keyMatrix) ==
  HillEncryptLoop(keyMatrix, PadX(toUpperCase(t)), 0, <<>>)

hillEncrypt(t, keyMatrix) ==
  HillEncryptLoop(keyMatrix, PadX(StripNonLetters(toUpperCase(t))), 0, <<>>)

----------------------------------------------------------------------------
(* State of a run: one cipher is exercised on one input.                    *)
(*   text        the input string                                          *)
(*   params      the key parameters (shift / a, b / key / keyMatrix)        *)
(*   ciphertext  what the encrypt call returned (NoText before, or raised)  *)
(*   result      what the decrypt call returned (NoText before, or raised)  *)
(*   matrix      the 5x5 grid the last Playfair call built                  *)
(*   encErr, decErr  "pending" before the call, then "none" or the error    *)

NoText == <<Undefined>>

\* fs.existsSync(dictPath) is false
Absent == <<Undefined, Undefined>>

validA == {1, 3, 5, 7, 9, 11, 15, 17, 19, 21, 23, 25}

DefaultKeyMatrix == <<<<6, 24, 1>>, <<13, 16, 10>>, <<20, 17, 15>>>>

DefaultParams ==
  [shift |-> 0, a |-> 1, b |-> 0, key |-> <<>>, keyMatrix |-> DefaultKeyMatrix]

\* 'A', 'Z', 'a', 'm', ' '
CaesarChars == {65, 90, 97, 109, 32}
\* 'B', 'y', '-'
AffineChars == {66, 121, 45}

InitCipherRun(c, t, p) ==
  /\ cipher = c
  /\ pc = "start"
  /\ text = t
  /\ params = p
  /\ ciphertext = NoText
  /\ result = NoText
  /\ encErr = "pending"
  /\ decErr = "pending"
  /\ i = 0
  /\ results = <<>>
  /\ matrix = <<>>

\* No wordlist, no attack call made, no dictionary file, no user, no log
\* row, no response.
NoCall == ret = [err |-> "pending", value |-> <<>>]

NoServer ==
  /\ users = <<>>
  /\ log = <<>>
  /\ response = [route |-> "none", status |-> 0, username |-> <<>>,
                 intercepted |-> <<>>, stored |-> <<>>, attacks |-> <<>>]

NoAttack ==
  /\ words = <<>>
  /\ NoCall
  /\ dictFile = Absent
  /\ NoServer

InitRun(c, t, p) == InitCipherRun(c, t, p) /\ NoAttack

\* The text a decrypt call is given: the ciphertext when there is one.
DecInput == IF encErr = "none" THEN ciphertext ELSE text

Encrypted(r) ==
  /\ pc = "start"
  /\ pc' = "encrypted"
  /\ encErr' = r.err
  /\ ciphertext' = IF r.err = "none" THEN r.value ELSE ciphertext
  /\ UNCHANGED <<cipher, text, params, result, decErr, i, results>>
  /\ UNCHANGED attackVars

Decrypted(r) ==
  /\ pc \in {"start", "encrypted"}
  /\ pc' = "done"
  /\ decErr' = r.err
  /\ result' = IF r.err = "none" THEN r.value ELSE result
  /\ UNCHANGED <<cipher, text, params, ciphertext, encErr, i, results>>
  /\ UNCHANGED attackVars

----------------------------------------------------------------------------
(* Caesar runs, and the brute-force of attacks.js on the ciphertext *)

InitCaesar ==
  \E t \in Texts(CaesarChars, MaxCaesarLen), s \in 0..(AlphabetSize - 1) :
    InitRun("caesar", t, [DefaultParams EXCEPT !.shift = s])

CaesarEncryptCall ==
  /\ cipher = "caesar"
  /\ Encrypted(Ok(caesarEncrypt(text, params.shift)))
  /\ UNCHANGED matrix

CaesarDecryptCall ==
  /\ cipher = "caesar"
  /\ Decrypted(Ok(caesarDecrypt(DecInput, params.shift)))
  /\ UNCHANGED matrix

BruteForceCaesarStart ==
  /\ cipher = "caesar"
  /\ pc = "encrypted"
  /\ pc' = "brute"
  /\ results' = <<>>
  /\ i' = 0
  /\ UNCHANGED <<cipher, text, params, ciphertext, result, encErr, decErr, matrix>>
  /\ UNCHANGED attackVars

\* the loop pushing the shift without decrypting under it
BruteForceCaesarStepSameKey ==
  /\ pc = "brute"
  /\ i < AlphabetSize
  /\ results' = Append(results, [shift |-> i, text |-> caesarDecrypt(ciphertext, 0)])
  /\ i' = i + 1
  /\ UNCHANGED <<cipher, pc, text, params, ciphertext, result, encErr, decErr, matrix>>
  /\ UNCHANGED attackVars

BruteForceCaesarStep ==
  /\ pc = "brute"
  /\ i < AlphabetSize
  /\ results' = Append(results, [shift |-> i, text |-> caesarDecrypt(ciphertext, i)])
  /\ i' = i + 1
  /\ UNCHANGED <<cipher, pc, text, params, ciphertext, result, encErr, decErr, matrix>>
  /\ UNCHANGED attackVars

BruteForceCaesarReturn ==
  /\ pc = "brute"
  /\ ~(i < AlphabetSize)
  /\ pc' = "bruteDone"
  /\ UNCHANGED <<cipher, text, params, ciphertext, result, encErr, decErr, i,
                 results, matrix>>
  /\ UNCHANGED attackVars

NextCaesar ==
  \/ CaesarEncryptCall
  \/ CaesarDecryptCall
  \/ BruteForceCaesarStart
  \/ BruteForceCaesarStep
  \/ BruteForceCaesarReturn

SpecCaesar == InitCaesar /\ [][NextCaesar]_vars

----------------------------------------------------------------------------
(* Affine runs *)

InitAffine ==
  \E t \in Texts(AffineChars, MaxAffineLen),
     a \in (-MaxAbsA)..MaxAbsA,
     b \in (-MaxExtraB)..(AlphabetSize - 1 + MaxExtraB) :
    InitRun("affine", t, [DefaultParams EXCEPT !.a = a, !.b = b])

AffineEncryptCall ==
  /\ cipher = "affine"
  /\ Encrypted(affineEncrypt(text, params.a, params.b))
  /\ UNCHANGED matrix

AffineDecryptCall ==
  /\ cipher = "affine"
  /\ Decrypted(affineDecrypt(DecInput, params.a, params.b))
  /\ UNCHANGED matrix

NextAffine ==
  \/ AffineEncryptCall
  \/ AffineDecryptCall

SpecAffine == InitAffine /\ [][NextAffine]_vars

----------------------------------------------------------------------------
(* Properties of the Caesar runs (SpecCaesar) *)

\* C1: for every shift s in 0..25 and every text T (upper case, lower case,
\* non-letters), caesarDecrypt(caesarEncrypt(T, s), s) = T.
C1_CaesarRoundTrip ==
  (cipher = "caesar" /\ pc = "done" /\ encErr = "none" /\ decErr = "none")
    => result = text

\* "Za" under shift 3 became "Cd" and was decrypted.
C1_Witness ==
  /\ cipher = "caesar" /\ pc = "done" /\ encErr = "none"
  /\ params.shift = 3
  /\ text = <<90, 97>>
  /\ ciphertext = <<67, 100>>

\* C10: bruteForceCaesar(C) is the 26 entries {shift: k, text:
\* caesarDecrypt(C, k)}, k = 0..25 in ascending order, and for C =
\* caesarEncrypt(P, s) the entry of shift s carries P.
C10_BruteForceCaesar ==
  (cipher = "caesar" /\ pc = "bruteDone") =>
    /\ Len(results) = 26
    /\ \A k \in 1..26 :
         results[k] = [shift |-> k - 1, text |-> caesarDecrypt(ciphertext, k - 1)]
    /\ \E k \in 1..Len(results) :
         results[k] = [shift |-> params.shift, text |-> text]

\* "mZ" under shift 3 is "pC"; the brute-force ran to its end.
C10_Witness ==
  /\ cipher = "caesar" /\ pc = "bruteDone"
  /\ params.shift = 3
  /\ text = <<109, 90>>
  /\ ciphertext = <<112, 67>>
  /\ Len(results) = 26

----------------------------------------------------------------------------
(* Properties of the affine runs (SpecAffine) *)

\* C2: for every a in validA, b in 0..25 and text T, neither call raises and
\* affineDecrypt(affineEncrypt(T, a, b), a, b) = T.
C2_AffineRoundTrip ==
  (/\ cipher = "affine" /\ pc = "done" /\ encErr # "pending"
   /\ params.a \in validA /\ params.b \in 0..25)
    => (encErr = "none" /\ decErr = "none" /\ result = text)

\* "By" under (5, 8) became "Ny" and was decrypted.
C2_Witness ==
  /\ cipher = "affine" /\ pc = "done" /\ encErr = "none" /\ decErr = "none"
  /\ params.a = 5 /\ params.b = 8
  /\ text = <<66, 121>>
  /\ ciphertext = <<78, 121>>

\* C3 as stated: affineEncrypt raises for every integer a outside validA,
\* negative a and a >= 26 included.
C3_RaisesOutsideValidA ==
  (cipher = "affine" /\ encErr # "pending" /\ params.a \notin validA)
    => (encErr = "InvalidKey" /\ ciphertext = NoText)

\* C3 amended: affineEncrypt raises, and returns no text, for every a in
\* 0..25 outside validA; for a >= 0 it raises exactly when a mod 26 is
\* outside validA (27 is accepted), and -25 is accepted.
C3_RaisesOutsideValidAInRange ==
  (cipher = "affine" /\ encErr # "pending") =>
    /\ (params.a \in (0..25) \ validA
          => (encErr = "InvalidKey" /\ ciphertext = NoText))
    /\ (params.a >= 0
          => (encErr = "InvalidKey" <=> (params.a % 26) \notin validA))
    /\ (params.a = -25 => encErr = "none")

\* affineEncrypt was called with a = 13 and raised.
C3_Witness ==
  /\ cipher = "affine" /\ pc = "encrypted"
  /\ params.a = 13
  /\ Len(text) = 2
  /\ encErr = "InvalidKey"

\* C4: affineDecrypt raises the invalid-key error if and only if
\* affineEncrypt raises it, for every integer a.
C4_SameKeysRejected ==
  (cipher = "affine" /\ pc = "done" /\ encErr # "pending")
    => (encErr = "InvalidKey" <=> decErr = "InvalidKey")

----------------------------------------------------------------------------
(* Playfair runs *)

\* 'I', 'J', 'X', 'c', '-'
PlayfairChars == {73, 74, 88, 99, 45}
\* "", "j", "X", "key"
PlayfairKeys == {<<>>, <<106>>, <<88>>, <<107, 101, 121>>}

InitPlayfair ==
  \E t \in Texts(PlayfairChars, MaxPlayfairLen), k \in PlayfairKeys :
    InitRun("playfair", t, [DefaultParams EXCEPT !.key = k])

PlayfairEncryptCall ==
  /\ cipher = "playfair"
  /\ Encrypted(playfairEncrypt(text, params.key))
  /\ UNCHANGED matrix

PlayfairDecryptCall ==
  /\ cipher = "playfair"
  /\ Decrypted(playfairDecrypt(DecInput, params.key))
  /\ UNCHANGED matrix

NextPlayfair ==
  \/ PlayfairEncryptCall
  \/ PlayfairDecryptCall

SpecPlayfair == InitPlayfair /\ [][NextPlayfair]_vars

----------------------------------------------------------------------------
(* Runs of buildPlayfairMatrix alone, over many keys *)

\* 'j', 'X', 'a', 'i', '1'
PlayfairKeyChars == {106, 88, 97, 105, 49}

InitMatrix ==
  \E k \in Texts(PlayfairKeyChars, MaxKeyLen) :
    InitRun("playfairMatrix", <<>>, [DefaultParams EXCEPT !.key = k])

BuildPlayfairMatrixCall ==
  /\ cipher = "playfairMatrix"
  /\ pc = "start"
  /\ pc' = "done"
  /\ matrix' = buildPlayfairMatrix(params.key)
  /\ UNCHANGED <<cipher, text, params, ciphertext, result, encErr, decErr,
                 i, results>>
  /\ UNCHANGED attackVars

NextMatrix == BuildPlayfairMatrixCall

SpecMatrix == InitMatrix /\ [][NextMatrix]_vars

----------------------------------------------------------------------------
(* Properties of the Playfair runs (SpecPlayfair, SpecMatrix) *)

IsAlphabetic(t) == \A k \in 1..Len(t) : IsUpper(t[k]) \/ IsLower(t[k])

NoAdjacentEqual(t) == \A k \in 1..(Len(t) - 1) : t[k] # t[k + 1]

\* C7 as stated: for every key and every alphabetic text T of even length
\* with no two adjacent equal letters, playfairDecrypt(playfairEncrypt(T, K),
\* K) is T with J replaced by I.
C7_PlayfairRoundTrip ==
  (/\ cipher = "playfair" /\ pc = "done" /\ encErr = "none" /\ decErr = "none"
   /\ IsAlphabetic(text) /\ Len(text) % 2 = 0 /\ NoAdjacentEqual(text))
    => result = ReplaceJ(text)

\* C7 amended: for every key and every alphabetic text T of even length in
\* which no two adjacent letters are equal once T is upper-cased and J is
\* replaced by I, neither call raises and the round trip returns T
\* upper-cased with J replaced by I.
C7_PlayfairRoundTripCanonical ==
  (/\ cipher = "playfair" /\ pc = "done" /\ encErr # "pending"
   /\ IsAlphabetic(text) /\ Len(text) % 2 = 0
   /\ NoAdjacentEqual(ReplaceJ(toUpperCase(text))))
    => (/\ encErr = "none" /\ decErr = "none"
        /\ result = ReplaceJ(toUpperCase(text)))

\* "XIcX" under the empty key: XI is a rectangle, CX a column of the bare
\* grid; the ciphertext was decrypted.
C7_Witness ==
  /\ cipher = "playfair" /\ pc = "done" /\ encErr = "none" /\ decErr = "none"
  /\ params.key = <<>>
  /\ text = <<88, 73, 99, 88>>
  /\ Len(ciphertext) = 4

Flatten(m) == m[1] \o m[2] \o m[3] \o m[4] \o m[5]

\* The letters of s in first-seen order
RECURSIVE FirstSeen(_)
FirstSeen(s) ==
  IF s = <<>> THEN <<>>
  ELSE LET init == FirstSeen(SubSeq(s, 1, Len(s) - 1))
           last == s[Len(s)]
       IN  IF last \in Range(init) THEN init ELSE Append(init, last)

\* C8: for every key, buildPlayfairMatrix returns a 5x5 grid holding each of
\* the 25 letters (A..Z without J) exactly once, the key's distinct letters
\* first in first-seen order, then the unused letters in alphabetical
\* order; for the empty key it is ABCDE/FGHIK/LMNOP/QRSTU/VWXYZ.
C8_PlayfairMatrixIsPermutation ==
  (cipher = "playfairMatrix" /\ pc = "done") =>
    LET keyLetters == FirstSeen(StripNonLetters(ReplaceJ(toUpperCase(params.key))))
        unused(ch) == ch \notin Range(keyLetters)
        flat == Flatten(matrix)
    IN  /\ Len(matrix) = 5
        /\ \A r \in 1..5 : Len(matrix[r]) = 5
        /\ \A ch \in Range(PlayfairAlphabet) :
             Cardinality({k \in 1..25 : flat[k] = ch}) = 1
        /\ flat = keyLetters \o SelectSeq(PlayfairAlphabet, unused)
        /\ (params.key = <<>> =>
              matrix = <<<<65, 66, 67, 68, 69>>, <<70, 71, 72, 73, 75>>,
                         <<76, 77, 78, 79, 80>>, <<81, 82, 83, 84, 85>>,
                         <<86, 87, 88, 89, 90>>>>)

\* The key "jXi" (J merged into I, the second I a repeat) gave the grid
\* starting I X A B C.
C8_Witness ==
  /\ cipher = "playfairMatrix" /\ pc = "done"
  /\ params.key = <<106, 88, 105>>
  /\ matrix[1] = <<73, 88, 65, 66, 67>>

\* C9: playfairEncrypt and playfairDecrypt never raise, whatever the text
\* and the key (odd number of letters, the letter J included).
C9_PlayfairNeverRaises ==
  cipher = "playfair" =>
    (encErr \in {"pending", "none"} /\ decErr \in {"pending", "none"})

----------------------------------------------------------------------------
(* Hill runs.  hillDecrypt is followed through its block loop: result is    *)
(* its local accumulator, returned when decErr becomes "none".             *)

\* 'A', 'B', 'z', ' '
HillChars == {65, 66, 122, 32}

\* The default key with two of its entries replaced, the default key
\* itself, and a key congruent to it with entries below 0 and above 25.
HillMatrices ==
  {[DefaultKeyMatrix EXCEPT ![1][1] = x, ![2][3] = y] :
     x \in (-MaxHillEntry)..MaxHillEntry, y \in (-MaxHillEntry)..MaxHillEntry}
  \cup {DefaultKeyMatrix, <<<<32, -2, 27>>, <<13, 16, 10>>, <<20, 17, 15>>>>}

InitHill ==
  \E t \in Texts(HillChars, MaxHillLen), m \in HillMatrices :
    InitRun("hill", t, [DefaultParams EXCEPT !.keyMatrix = m])

HillEncryptCall ==
  /\ cipher = "hill"
  /\ Encrypted(Ok(hillEncrypt(text, params.keyMatrix)))
  /\ UNCHANGED matrix

\* text = text.toUpperCase().replace(/[^A-Z]/g, '')
HillDecryptText == StripNonLetters(toUpperCase(DecInput))

HillDecryptStart ==
  /\ cipher = "hill"
  /\ pc \in {"start", "encrypted"}
  /\ LET inv == inverseMatrix3x3Mod26(params.keyMatrix)
     IN  IF inv.err # "none"
           THEN /\ pc' = "done"
                /\ decErr' = inv.err
                /\ UNCHANGED <<result, i>>
           ELSE /\ pc' = "hillLoop"
                /\ result' = <<>>
                /\ i' = 0
                /\ UNCHANGED decErr
  /\ UNCHANGED <<cipher, text, params, ciphertext, encErr, results, matrix>>
  /\ UNCHANGED attackVars

HillDecryptBlock ==
  /\ pc = "hillLoop"
  /\ i < Len(HillDecryptText)
  /\ result' = result \o HillBlock(inverseMatrix3x3Mod26(params.keyMatrix).value,
                                   HillDecryptText, i)
  /\ i' = i + 3
  /\ UNCHANGED <<cipher, pc, text, params, ciphertext, encErr, decErr, results,
                 matrix>>
  /\ UNCHANGED attackVars

HillDecryptReturn ==
  /\ pc = "hillLoop"
  /\ ~(i < Len(HillDecryptText))
  /\ pc' = "done"
  /\ decErr' = "none"
  /\ UNCHANGED <<cipher, text, params, ciphertext, result, encErr, i, results,
                 matrix>>
  /\ UNCHANGED attackVars

NextHill ==
  \/ HillEncryptCall
  \/ HillDecryptStart
  \/ HillDecryptBlock
  \/ HillDecryptReturn

SpecHill == InitHill /\ [][NextHill]_vars

----------------------------------------------------------------------------
(* Properties of the Hill runs (SpecHill) *)

\* n has no factor in common with 26 = 2 * 13
CoprimeTo26(n) == n % 2 # 0 /\ n % 13 # 0

\* C5: hillDecrypt raises the invalid-key error exactly when
\* gcd(det(K) mod 26, 26) # 1, and before any block is decoded: nothing,
\* not even a partial string, is returned then.
C5_HillDecryptRejectsSingularKey ==
  cipher = "hill" =>
    /\ (decErr = "InvalidKey" =>
          (/\ ~CoprimeTo26(det3x3(params.keyMatrix) % 26)
           /\ result = NoText /\ i = 0))
    /\ ((pc = "hillLoop" \/ decErr = "none") =>
          CoprimeTo26(det3x3(params.keyMatrix) % 26))
    /\ (~CoprimeTo26(det3x3(params.keyMatrix) % 26) => result = NoText)
    /\ (pc = "done" => decErr \in {"InvalidKey", "none"})

\* hillDecrypt raised on a two-block ciphertext under a key of even
\* determinant.
C5_Witness ==
  /\ cipher = "hill" /\ pc = "done" /\ decErr = "InvalidKey"
  /\ det3x3(params.keyMatrix) % 26 = 2
  /\ encErr = "none" /\ Len(ciphertext) = 6

\* C6 as stated: for every invertible key and every text T whose length is a
\* multiple of 3, hillDecrypt(hillEncrypt(T, M), M) = T.
C6_HillRoundTrip ==
  (/\ cipher = "hill" /\ pc = "done" /\ encErr = "none" /\ decErr = "none"
   /\ Len(text) % 3 = 0)
    => result = text

\* C6 amended: for every invertible key and every text T of letters only
\* whose length is a multiple of 3, hillDecrypt does not raise and the
\* round trip returns T upper-cased.
C6_HillRoundTripLetters ==
  (/\ cipher = "hill" /\ pc = "done" /\ encErr = "none"
   /\ CoprimeTo26(det3x3(params.keyMatrix) % 26)
   /\ IsAlphabetic(text) /\ Len(text) % 3 = 0)
    => (decErr = "none" /\ result = toUpperCase(text))

\* "BzA" went through the key with entries below 0 and above 25.
C6_Witness ==
  /\ cipher = "hill" /\ pc = "done" /\ encErr = "none" /\ decErr = "none"
  /\ params.keyMatrix[1] = <<32, -2, 27>>
  /\ text = <<66, 122, 65>>
  /\ ciphertext # toUpperCase(text)

(***************************************************************************)
(* bruteForceAffine of attacks.js: the 12 multipliers in the order of the  *)
(* validA array, b from 0 to 25, a candidate that raises being dropped.    *)
(***************************************************************************)
MaxBruteLen == 1

validAList == <<1, 3, 5, 7, 9, 11, 15, 17, 19, 21, 23, 25>>

\* The inner loop (lines 46-58) for one multiplier: b = from .. bEnd - 1, a
\* candidate whose affineDecrypt raised being dropped by the catch.
RECURSIVE BruteForceAffineRow(_, _, _, _, _)
BruteForceAffineRow(c, a, b, bEnd, acc) ==
  IF b >= bEnd THEN acc
  ELSE LET r == affineDecrypt(c, a, b)
       IN  BruteForceAffineRow(c, a, b + 1, bEnd,
             IF r.err = "none"
               THEN Append(acc, [a |-> a, b |-> b, text |-> r.value])
               ELSE acc)

RECURSIVE BruteForceAffineLoop(_, _, _, _)
BruteForceAffineLoop(c, k, bEnd, acc) ==
  IF k > Len(validAList) THEN acc
  ELSE BruteForceAffineLoop(c, k + 1, bEnd,
         acc \o BruteForceAffineRow(c, validAList[k], 0, bEnd, <<>>))

\* the inner loop stops one short: b < 25
bruteForceAffineShortB(c) ==
  BruteForceAffineLoop(c, 1, AlphabetSize - 1, <<>>)

bruteForceAffine(c) == BruteForceAffineLoop(c, 1, AlphabetSize, <<>>)

InitBruteAffine ==
  \E t \in Texts(AffineChars, MaxBruteLen), a \in validA,
     b \in 0..(AlphabetSize - 1) :
    InitRun("affine", t, [DefaultParams EXCEPT !.a = a, !.b = b])

BruteForceAffineCall ==
  /\ cipher = "affine"
  /\ pc = "encrypted"
  /\ encErr = "none"
  /\ pc' = "bruteDone"
  /\ results' = bruteForceAffine(ciphertext)
  /\ UNCHANGED <<cipher, text, params, ciphertext, result, encErr, decErr,
                 i, matrix>>
  /\ UNCHANGED attackVars

NextBruteAffine == AffineEncryptCall \/ BruteForceAffineCall

SpecBruteAffine == InitBruteAffine /\ [][NextBruteAffine]_vars

(***************************************************************************)
(* Properties of bruteForceAffine (SpecBruteAffine) *)
(***************************************************************************)

\* C11: bruteForceAffine(C) returns exactly 312 entries, one per pair (a, b)
\* with a in validA and b in 0..25, ordered by ascending a and then
\* ascending b, each carrying text = affineDecrypt(C, a, b); when C is
\* affineEncrypt(P, a, b) under a valid key the list contains (a, b, P).
C11_BruteForceAffine ==
  (cipher = "affine" /\ pc = "bruteDone") =>
    /\ Len(results) = 312
    /\ {<<results[k].a, results[k].b>> : k \in 1..Len(results)}
         = validA \X (0..25)
    /\ \A k \in 1..Len(results) :
         /\ results[k].a \in validA
         /\ results[k].b \in 0..25
         /\ results[k].text =
              affineDecrypt(ciphertext, results[k].a, results[k].b).value
    /\ \A k \in 1..(Len(results) - 1) :
         \/ results[k].a < results[k + 1].a
         \/ results[k].a = results[k + 1].a /\ results[k].b < results[k + 1].b
    /\ \E k \in 1..Len(results) :
         results[k] = [a |-> params.a, b |-> params.b, text |-> text]

C11_Witness ==
  /\ cipher = "affine"
  /\ pc = "bruteDone"
  /\ text = <<66>>
  /\ params.a = 5 /\ params.b = 8
  /\ ciphertext = <<78>>
  /\ \E k \in 1..Len(results) :
       results[k] = [a |-> 5, b |-> 8, text |-> <<66>>]

(***************************************************************************)
(* The Caesar and the affine runs together *)
(***************************************************************************)
InitShiftAffine == InitCaesar \/ InitAffine

NextShiftAffine == NextCaesar \/ NextAffine

SpecShiftAffine == InitShiftAffine /\ [][NextShiftAffine]_vars

\* The output has the length of the input; at each position a non-letter is
\* copied, a lower-case letter gives a lower-case letter and an upper-case
\* letter an upper-case letter.
SameShape(s, t) ==
  /\ Len(t) = Len(s)
  /\ \A k \in 1..Len(s) :
       IF IsLower(s[k]) THEN IsLower(t[k])
       ELSE IF IsUpper(s[k]) THEN IsUpper(t[k])
       ELSE t[k] = s[k]

\* C12: the shift and affine transforms are position-wise and
\* class-preserving: whenever caesarEncrypt, caesarDecrypt, affineEncrypt or
\* affineDecrypt returns, its output has the length of its input, every
\* non-alphabetic character is copied unchanged at its position, every
\* lower-case letter maps to a lower-case letter and every upper-case letter
\* to an upper-case letter.
C12_PositionWiseClassPreserving ==
  cipher \in {"caesar", "affine"} =>
    /\ encErr = "none" => SameShape(text, ciphertext)
    /\ decErr = "none" => SameShape(DecInput, result)

C12_Witness ==
  /\ cipher = "affine"
  /\ params.a = 3 /\ params.b = 1
  /\ text = <<66, 45>>
  /\ encErr = "none" /\ ciphertext = <<69, 45>>
  /\ decErr = "none" /\ result = <<66, 45>>

(***************************************************************************)
(* The dictionary attacks of attacks.js.  The dictionary file is the       *)
(* sequence of its characters, or Absent.                                  *)
(***************************************************************************)
NewLine == 10
Space == 32
CarriageReturn == 13
Tab == 9

DefaultShift == 3
DefaultA == 5
DefaultB == 8
\* 'SECRET'
DefaultKey == <<83, 69, 67, 82, 69, 84>>

\* v || d for a number v: 0 (like undefined) gives the default
NumOr(v, d) == IF v = 0 THEN d ELSE v

\* v || d for a string v, or for an array that may be missing: the empty
\* string (like undefined, written <<>>) gives the default
SeqOr(v, d) == IF v = <<>> THEN d ELSE v

toLowerCase(s) ==
  LET low(ch) == IF IsUpper(ch) THEN ch + (LowerA - UpperA) ELSE ch
  IN  Map(low, s)

IsSpace(ch) == ch \in {Space, Tab, CarriageReturn, NewLine}

\* String.prototype.trim
Trim(s) ==
  LET keep == {k \in 1..Len(s) : ~IsSpace(s[k])}
  IN  IF keep = {} THEN <<>>
      ELSE LET first == CHOOSE k \in keep : \A j \in keep : k <= j
               last  == CHOOSE k \in keep : \A j \in keep : j <= k
           IN  [k \in 1..(last - first + 1) |-> s[first + k - 1]]

\* s.split('\n'): the pieces between the separators, empty ones included
Split(s, sep) ==
  LET cuts == {k \in 1..Len(s) : s[k] = sep}
      RECURSIVE pieces(_)
      pieces(from) ==
        LET later == {k \in cuts : k >= from}
        IN  IF later = {} THEN <<Slice(s, from - 1, Len(s))>>
            ELSE LET cut == CHOOSE k \in later : \A j \in later : k <= j
                 IN  <<Slice(s, from - 1, cut - 1)>> \o pieces(cut + 1)
  IN  pieces(1)

NonEmpty(s) == s # <<>>

\* dictionaryAttack: .split('\n').map(w => w.trim().toLowerCase())
\*                   .filter(Boolean)
DictionaryWords(file) ==
  LET norm(w) == toLowerCase(Trim(w))
  IN  SelectSeq(Map(norm, Split(file, NewLine)), NonEmpty)

\* The loop of dictionaryAttack over the candidates; fold tells whether the
\* candidate's text is lower-cased before the lookup (it is, in the code).
RECURSIVE DictionaryAttackLoop(_, _, _, _, _)
DictionaryAttackLoop(candidates, wordSet, k, acc, fold) ==
  IF k > Len(candidates) THEN acc
  ELSE LET candidate == candidates[k]
           t == IF fold THEN toLowerCase(candidate.text) ELSE candidate.text
       IN  DictionaryAttackLoop(candidates, wordSet, k + 1,
             IF t \in wordSet
               THEN Append(acc, [matched |-> t] @@ candidate)
               ELSE acc,
             fold)

\* dictionaryAttack looking the candidate's text up as it is
dictionaryAttackCaseSensitive(candidates, file) ==
  IF file = Absent THEN Raise("ENOENT")
  ELSE Ok(DictionaryAttackLoop(candidates, Range(DictionaryWords(file)),
                               1, <<>>, FALSE))

dictionaryAttack(candidates, file) ==
  IF file = Absent THEN Raise("ENOENT")
  ELSE Ok(DictionaryAttackLoop(candidates, Range(DictionaryWords(file)),
                               1, <<>>, TRUE))

\* The switch without the `|| default` on the Caesar and affine keys
EncryptWordSuppliedKey(word, c, p) ==
  CASE c = "caesar" -> Ok(caesarEncrypt(word, p.shift))
    [] c = "affine" -> affineEncrypt(word, p.a, p.b)
    [] c = "playfair" -> playfairEncrypt(word, SeqOr(p.key, DefaultKey))
    [] c = "hill" ->
         Ok(hillEncrypt(word, SeqOr(p.keyMatrix, DefaultKeyMatrix)))
    [] OTHER -> Ok(word)

\* The switch of dictionaryDirectAttack: the encryption of one word
EncryptWord(word, c, p) ==
  CASE c = "caesar" -> Ok(caesarEncrypt(word, NumOr(p.shift, DefaultShift)))
    [] c = "affine" ->
         affineEncrypt(word, NumOr(p.a, DefaultA), NumOr(p.b, DefaultB))
    [] c = "playfair" -> playfairEncrypt(word, SeqOr(p.key, DefaultKey))
    [] c = "hill" ->
         Ok(hillEncrypt(word, SeqOr(p.keyMatrix, DefaultKeyMatrix)))
    [] OTHER -> Ok(word)

\* The loop of dictionaryDirectAttack.  onRaise is what happens to a word
\* whose encryption raises: "skip" is the code's empty catch block.
RECURSIVE DictionaryDirectLoop(_, _, _, _, _, _, _)
DictionaryDirectLoop(c, ws, cph, p, k, acc, onRaise) ==
  IF k > Len(ws) THEN Ok(acc)
  ELSE LET r == EncryptWord(ws[k], cph, p)
       IN  IF r.err # "none"
             THEN CASE onRaise = "throw" -> Raise(r.err)
                    [] onRaise = "push" ->
                         DictionaryDirectLoop(c, ws, cph, p, k + 1,
                                              Append(acc, ws[k]), onRaise)
                    [] OTHER ->
                         DictionaryDirectLoop(c, ws, cph, p, k + 1, acc,
                                              onRaise)
             ELSE DictionaryDirectLoop(c, ws, cph, p, k + 1,
                    IF toLowerCase(r.value) = toLowerCase(c)
                      THEN Append(acc, ws[k])
                      ELSE acc,
                    onRaise)

\* dictionaryDirectAttack without its try/catch
dictionaryDirectAttackNoCatch(c, ws, cph, p) ==
  DictionaryDirectLoop(c, ws, cph, p, 1, <<>>, "throw")

\* dictionaryDirectAttack whose catch block keeps the word
dictionaryDirectAttackPushOnCatch(c, ws, cph, p) ==
  DictionaryDirectLoop(c, ws, cph, p, 1, <<>>, "push")

dictionaryDirectAttack(c, ws, cph, p) ==
  DictionaryDirectLoop(c, ws, cph, p, 1, <<>>, "skip")

(***************************************************************************)
(* State of an attack run                                                  *)
(*   words     the wordlist argument of dictionaryDirectAttack             *)
(*   dictFile  the content of the dictionary file, or Absent               *)
(*   ret       what the last attack call returned, or the error it raised  *)
(*                                                                         *)
(* Filter mode: bruteForceCaesar on a ciphertext, then dictionaryAttack on *)
(* its candidates.                                                         *)
(***************************************************************************)

\* "Am", "a", "Z ", ""
FilterTexts == {<<65, 109>>, <<97>>, <<90, 32>>, <<>>}

\* "am\n"  |  " AM \r\n\nbn\nzz"  |  ""  |  no file
DictFiles ==
  { <<97, 109, 10>>,
    <<32, 65, 77, 32, 13, 10, 10, 98, 110, 10, 122, 122>>,
    <<>>,
    Absent }

InitFilter ==
  \E t \in FilterTexts, s \in 0..(AlphabetSize - 1), f \in DictFiles :
    /\ InitCipherRun("caesar", t, [DefaultParams EXCEPT !.shift = s])
    /\ words = <<>>
    /\ NoCall
    /\ dictFile = f
    /\ NoServer

DictionaryAttackCall ==
  /\ cipher = "caesar"
  /\ pc = "bruteDone"
  /\ pc' = "filterDone"
  /\ ret' = dictionaryAttack(results, dictFile)
  /\ UNCHANGED <<cipher, text, params, ciphertext, result, encErr, decErr,
                 i, results, matrix>>
  /\ UNCHANGED <<words, dictFile, users, log, response>>

NextFilter ==
  \/ CaesarEncryptCall
  \/ BruteForceCaesarStart
  \/ BruteForceCaesarStep
  \/ BruteForceCaesarReturn
  \/ DictionaryAttackCall

SpecFilter == InitFilter /\ [][NextFilter]_vars

\* C14: dictionaryAttack returns exactly the candidates, in their original
\* order and with their original key fields, whose lower-cased text is an
\* entry of the wordlist (the lines of the file trimmed and lower-cased, the
\* blank ones dropped); no candidate is added, duplicated or reordered and
\* the candidate list itself is left as bruteForceCaesar built it.
C14_DictionaryAttackFilters ==
  (pc = "filterDone" /\ ret.err = "none") =>
    LET wordSet == {toLowerCase(Trim(l)) :
                      l \in Range(Split(dictFile, NewLine))} \ {<<>>}
        InList(c) == toLowerCase(c.text) \in wordSet
        kept == SelectSeq(results, InList)
    IN  /\ Len(ret.value) = Len(kept)
        /\ \A k \in 1..Len(kept) :
             /\ ret.value[k].shift = kept[k].shift
             /\ ret.value[k].text = kept[k].text
        /\ Len(results) = AlphabetSize
        /\ \A k \in 1..Len(results) :
             results[k] =
               [shift |-> k - 1, text |-> caesarDecrypt(ciphertext, k - 1)]

C14_Witness ==
  /\ pc = "filterDone"
  /\ ret.err = "none"
  /\ dictFile = <<32, 65, 77, 32, 13, 10, 10, 98, 110, 10, 122, 122>>
  /\ text = <<65, 109>>
  /\ params.shift = 3
  /\ Len(ret.value) = 2
  /\ ret.value[1] = [shift |-> 2, text |-> <<66, 110>>, matched |-> <<98, 110>>]
  /\ ret.value[2] = [shift |-> 3, text |-> <<65, 109>>, matched |-> <<97, 109>>]

(***************************************************************************)
(* Direct mode: dictionaryDirectAttack on an intercepted string (the       *)
(* ciphertext of the run when the encryption returned one, else the text), *)
(* a wordlist, a cipher identifier and key parameters.                     *)
(***************************************************************************)
MaxWords == 2

\* "By", "by", "y", "-"
DictTexts == {<<66, 121>>, <<98, 121>>, <<121>>, <<45>>}

\* "By", "by", "y", "zz"
DictWordSet == {<<66, 121>>, <<98, 121>>, <<121>>, <<122, 122>>}

\* 0 is the missing multiplier; 2 and 13 are not coprime to 26
DictA == validA \cup {0, 2, 13}

\* 0 is the missing offset
DictB == {0, 1, 8, 25}

\* det = 2
SingularKeyMatrix == <<<<2, 0, 0>>, <<0, 1, 0>>, <<0, 0, 1>>>>

DictParams(c) ==
  CASE c = "caesar" ->
         {[DefaultParams EXCEPT !.shift = s] : s \in 0..(AlphabetSize - 1)}
    [] c = "affine" ->
         {[DefaultParams EXCEPT !.a = a, !.b = b] : a \in DictA, b \in DictB}
    [] c = "playfair" ->
         {[DefaultParams EXCEPT !.key = k] : k \in {<<>>, <<107, 101, 121>>}}
    [] c = "hill" ->
         {[DefaultParams EXCEPT !.keyMatrix = m] :
            m \in {<<>>, SingularKeyMatrix}}
    [] OTHER -> {DefaultParams}

InitDict ==
  \E c \in {"caesar", "affine", "playfair", "hill", "plain"} :
    \E t \in DictTexts, p \in DictParams(c),
       ws \in Texts(DictWordSet, MaxWords) :
      /\ InitCipherRun(c, t, p)
      /\ words = ws
      /\ NoCall
      /\ dictFile = Absent
      /\ NoServer

DictionaryDirectAttackCall ==
  /\ pc \in {"start", "encrypted"}
  /\ pc' = "dictDone"
  /\ ret' = dictionaryDirectAttack(DecInput, words, cipher, params)
  /\ UNCHANGED <<cipher, text, params, ciphertext, result, encErr, decErr,
                 i, results, matrix>>
  /\ UNCHANGED <<words, dictFile, users, log, response>>

NextDict ==
  \/ CaesarEncryptCall
  \/ AffineEncryptCall
  \/ DictionaryDirectAttackCall

SpecDict == InitDict /\ [][NextDict]_vars

(***************************************************************************)
(* Properties of dictionaryDirectAttack (SpecDict) *)
(***************************************************************************)

\* The encryption of a word under the key as it was supplied
SuppliedKeyEncrypt(w) ==
  IF cipher = "caesar" THEN Ok(caesarEncrypt(w, params.shift))
  ELSE affineEncrypt(w, params.a, params.b)

\* C13: dictionaryDirectAttack returns exactly the words of the wordlist, in
\* wordlist order, whose encryption under the supplied key equals the
\* ciphertext case-insensitively, for every supplied Caesar shift in 0..25
\* and every supplied affine key with a valid a and b in 0..25.
C13_DirectAttackUsesSuppliedKey ==
  ( /\ pc = "dictDone"
    /\ \/ cipher = "caesar" /\ params.shift \in 0..25
       \/ cipher = "affine" /\ params.a \in validA /\ params.b \in 0..25 ) =>
    LET Hit(w) == toLowerCase(SuppliedKeyEncrypt(w).value)
                    = toLowerCase(DecInput)
    IN  /\ ret.err = "none"
        /\ ret.value = SelectSeq(words, Hit)

\* Some word's encryption raises the invalid-key error inside the call
RaisesInside ==
  \E k \in 1..Len(words) :
    EncryptWord(words[k], cipher, params).err = "InvalidKey"

\* C15 (as stated): whenever a cipher call made inside dictionaryDirectAttack
\* fails on its algebraic precondition, the failure reaches the caller.
C15_FailureReachesCaller ==
  (pc = "dictDone" /\ RaisesInside) => ret.err = "InvalidKey"

\* C15 (amended): a cipher call that fails inside dictionaryDirectAttack
\* because the affine multiplier is not coprime to 26 is caught and
\* discarded: every word is skipped and the caller gets the empty list and
\* no error; a Hill matrix that is not invertible raises nothing, since
\* hillEncrypt does not test it.
C15_FailureDiscarded ==
  /\ (pc = "dictDone" /\ RaisesInside) =>
       /\ cipher = "affine"
       /\ gcd(NumOr(params.a, DefaultA), AlphabetSize) # 1
       /\ ret = Ok(<<>>)
  /\ (pc = "dictDone" /\ cipher = "hill") => ret.err = "none"

C15_Witness ==
  /\ pc = "dictDone"
  /\ cipher = "affine"
  /\ params.a = 13
  /\ words = <<<<98, 121>>, <<121>>>>
  /\ RaisesInside
  /\ ret = Ok(<<>>)

\* C16: dictionaryDirectAttack never fails and never aborts its scan: for
\* every ciphertext, wordlist, cipher identifier and key parameters it
\* returns a list, made of the words (in wordlist order) whose encryption
\* returns and equals the ciphertext case-insensitively; a word whose
\* encryption raises is skipped and the later words are still compared.
C16_DirectAttackNeverFails ==
  pc = "dictDone" =>
    LET Hit(w) ==
          LET r == EncryptWord(w, cipher, params)
          IN  r.err = "none" /\ toLowerCase(r.value) = toLowerCase(DecInput)
    IN  /\ ret.err = "none"
        /\ ret.value = SelectSeq(words, Hit)

C16_Witness ==
  /\ pc = "dictDone"
  /\ cipher = "affine"
  /\ params.a = 2
  /\ Len(words) = 2
  /\ encErr = "InvalidKey"
  /\ ret.err = "none"
  /\ ret.value = <<>>

(***************************************************************************)
(* State of the server (backend/server.js)                                 *)
(*   users     db.users of users.json, in insertion order                  *)
(*   log       the rows appended to results.csv (without the header and    *)
(*             the closing line feed), in append order                     *)
(*   dictFile  data/dict_small.txt                                         *)
(*   response  the response to the last request; status 0 when the handler *)
(*             threw before answering                                      *)
(***************************************************************************)
MaxLogRows == 1

Comma == 44

\* new Date().toISOString(), e.g. '2025-01-01T00:00:00.000Z'
Timestamp ==
  <<50, 48, 50, 53, 45, 48, 49, 45, 48, 49, 84, 48, 48, 58, 48, 48, 58, 48,
    48, 46, 48, 48, 48, 90>>

\* elapsed.toFixed(3), e.g. '0.000'
ElapsedFixed == <<48, 46, 48, 48, 48>>

\* '[hashed]'
Hashed == <<91, 104, 97, 115, 104, 101, 100, 93>>

\* The characters of the attack names and of the booleans
Chars(s) ==
  CASE s = "Caesar Brute-Force" ->
         <<67, 97, 101, 115, 97, 114, 32, 66, 114, 117, 116, 101, 45, 70,
           111, 114, 99, 101>>
    [] s = "Affine Brute-Force" ->
         <<65, 102, 102, 105, 110, 101, 32, 66, 114, 117, 116, 101, 45, 70,
           111, 114, 99, 101>>
    [] s = "Dictionary Attack" ->
         <<68, 105, 99, 116, 105, 111, 110, 97, 114, 121, 32, 65, 116, 116,
           97, 99, 107>>
    [] s = "true" -> <<116, 114, 117, 101>>
    [] s = "false" -> <<102, 97, 108, 115, 101>>

\* `${n}` for a natural number n
RECURSIVE Decimal(_)
Decimal(n) ==
  IF n < 10 THEN <<48 + n>> ELSE Append(Decimal(n \div 10), 48 + (n % 10))

RECURSIVE Join(_, _)
Join(fields, sep) ==
  IF Len(fields) = 0 THEN <<>>
  ELSE IF Len(fields) = 1 THEN fields[1]
  ELSE fields[1] \o <<sep>> \o Join(Tail(fields), sep)

\* logAttackResult writing the file anew (writeFileSync for appendFileSync)
logAttackResultOverwrite(rows, username, attackType, target, attempts, success, recovered) ==
  <<Join(<<Timestamp, username, Chars(attackType), target,
           Decimal(attempts), ElapsedFixed,
           Chars(IF success THEN "true" ELSE "false"), recovered>>,
         Comma)>>

\* logAttackResult: the line appended to results.csv
logAttackResult(rows, username, attackType, target, attempts, success, recovered) ==
  Append(rows,
         Join(<<Timestamp, username, Chars(attackType), target,
                Decimal(attempts), ElapsedFixed,
                Chars(IF success THEN "true" ELSE "false"), recovered>>,
              Comma))

\* A lookup that never finds the user
FindUserNever(us, username) == 0

\* db.users.find(u => u.username === username): its index, 0 when undefined
FindUser(us, username) ==
  LET found == {k \in 1..Len(us) : us[k].username = username}
  IN  IF found = {} THEN 0 ELSE CHOOSE k \in found : \A j \in found : k <= j

\* bruteForceCaesar as a function of the ciphertext
bruteForceCaesar(c) ==
  [k \in 1..AlphabetSize |-> [shift |-> k - 1, text |-> caesarDecrypt(c, k - 1)]]

\* The switch of handleRegister in weak mode: the stored password
RegisterStored(body) ==
  CASE body.cipher = "caesar" ->
         Ok(caesarEncrypt(body.password, NumOr(body.params.shift, DefaultShift)))
    [] body.cipher = "affine" ->
         affineEncrypt(body.password, NumOr(body.params.a, DefaultA),
                       NumOr(body.params.b, DefaultB))
    [] body.cipher = "playfair" ->
         playfairEncrypt(body.password, SeqOr(body.params.key, DefaultKey))
    [] body.cipher = "hill" ->
         Ok(hillEncrypt(body.password,
                        SeqOr(body.params.keyMatrix, DefaultKeyMatrix)))
    [] OTHER -> Ok(body.password)

NoResponse(route) ==
  [route |-> route, status |-> 0, username |-> <<>>, intercepted |-> <<>>,
   stored |-> <<>>, attacks |-> <<>>]

Answer(route, status) == [NoResponse(route) EXCEPT !.status = status]

\* crypto.randomBytes(16).toString('hex'): one value stands for the salt
Salt == <<55>>

\* crypto.pbkdf2Sync(password, salt, ...).toString('hex'), as a function
\* without collisions
pbkdf2Sync(password, salt) == salt \o <<Comma>> \o password

\* hashPassword: the fields of the record that verifyPassword reads
hashPassword(password) ==
  [salt |-> Salt, derived |-> pbkdf2Sync(password, Salt)]

\* A user stored in secure mode has no cipher, params or storedPassword
SecureUser(username, password) ==
  [username |-> username, mode |-> "secure", cipher |-> "undefined",
   params |-> DefaultParams,
   storedPassword |-> NoText,
   salt |-> hashPassword(password).salt,
   derived |-> hashPassword(password).derived]

\* A run is followed while the log holds fewer than MaxLogRows rows and up
\* to its first request that is rejected: such a request changes neither
\* users.json nor results.csv.
Serving ==
  /\ Len(log) < MaxLogRows
  /\ response.status \in {0, 200}
  /\ response.route = "none" \/ response.status = 200

\* "u"
ServerUsernames == {<<117>>}

\* "By", "y"
ServerPasswords == {<<66, 121>>, <<121>>}

\* 0 is the missing shift
ServerShifts == {0, 1, 3, 13, 25}

\* 0 is the missing multiplier; 2 is not coprime to 26
ServerA == {0, 1, 2, 5, 11, 25}

\* 0 is the missing offset
ServerB == {0, 1, 8}

ServerParams(c) ==
  IF c = "caesar"
    THEN {[DefaultParams EXCEPT !.shift = s] : s \in ServerShifts}
  ELSE IF c = "affine"
    THEN {[DefaultParams EXCEPT !.a = a, !.b = b] :
            a \in ServerA, b \in ServerB}
  ELSE DictParams(c)

RegisterBodies ==
  UNION {
    {[username |-> u, password |-> pw, mode |-> "weak", cipher |-> c,
      params |-> p] :
       u \in ServerUsernames, pw \in ServerPasswords, p \in ServerParams(c)} :
    c \in {"caesar", "affine", "playfair", "hill", "plain"} }
  \cup
  {[username |-> u, password |-> pw, mode |-> m, cipher |-> "undefined",
    params |-> DefaultParams] :
     u \in ServerUsernames \cup {<<>>}, pw \in ServerPasswords \cup {<<>>},
     m \in {"secure", "guest", ""}}

\* The callback of handleRegister on a parsed body.  parseBody calls the
\* callback inside a try block and calls it again with the error when it
\* throws, so a cipher call that throws is answered 400.  The handler
\* writes users.json and the response, nothing else.
Register(body) ==
     IF body.username = <<>> \/ body.password = <<>> \/ body.mode = ""
       THEN /\ response' = Answer("register", 400)
            /\ users' = users
     ELSE IF FindUser(users, body.username) # 0
       THEN /\ response' = Answer("register", 409)
            /\ users' = users
     ELSE IF body.mode = "weak"
       THEN LET r == RegisterStored(body)
            IN  IF r.err # "none"
                  THEN /\ response' = Answer("register", 400)
                       /\ users' = users
                  ELSE /\ users' =
                            Append(users,
                              [username |-> body.username, mode |-> "weak",
                               cipher |-> body.cipher,
                               params |-> body.params,
                               storedPassword |-> r.value])
                       /\ response' =
                            [Answer("register", 200) EXCEPT !.stored = r.value]
     ELSE /\ users' = IF body.mode = "secure"
                        THEN Append(users,
                                    SecureUser(body.username, body.password))
                        ELSE users
          /\ response' = [Answer("register", 200) EXCEPT !.stored = Hashed]

HandleRegister ==
  \E body \in RegisterBodies :
    /\ Serving
    /\ Register(body)
    /\ UNCHANGED <<cipher, pc, text, params, ciphertext, result, encErr,
                   decErr, i, results, matrix>>
    /\ UNCHANGED <<words, ret, dictFile, log>>

\* user.storedPassword?.toLowerCase()
StoredLower(user) ==
  IF user.storedPassword = NoText THEN NoText
  ELSE toLowerCase(user.storedPassword)

\* The Caesar branch of handleSimulateMitm: the entry pushed on
\* results.attacks
CaesarAttack(user, intercepted) ==
  LET candidates == bruteForceCaesar(intercepted)
      dictMatches == IF dictFile # Absent
                       THEN dictionaryAttack(candidates, dictFile).value
                       ELSE <<>>
      Same(c) == toLowerCase(c.text) = StoredLower(user)
      hits == SelectSeq(candidates, Same)
      success == hits # <<>>
  IN  [type |-> "Caesar Brute-Force", attempts |-> AlphabetSize,
       candidates |-> SubSeq(candidates, 1, 10),
       dictMatches |-> dictMatches, success |-> success,
       recovered |-> IF success THEN hits[1].text ELSE <<>>]

\* The affine branch: the comparison is c.text === user.storedPassword
AffineAttack(user, intercepted) ==
  LET candidates == bruteForceAffine(intercepted)
      Same(c) == c.text = user.storedPassword
      hits == SelectSeq(candidates, Same)
      success == hits # <<>>
  IN  [type |-> "Affine Brute-Force", attempts |-> Len(candidates),
       candidates |-> SubSeq(candidates, 1, 10),
       success |-> success,
       recovered |-> IF success THEN hits[1].text ELSE <<>>]

\* The dictionary branch: .split('\n').map(w => w.trim()).filter(Boolean)
ServerWords(file) ==
  SelectSeq(Map(Trim, Split(file, NewLine)), NonEmpty)

DictionaryAttackEntry(user, intercepted) ==
  LET ws == ServerWords(dictFile)
      matches == dictionaryDirectAttack(intercepted, ws, user.cipher,
                                        user.params).value
      success == Len(matches) > 0
  IN  [type |-> "Dictionary Attack", attempts |-> Len(ws),
       matches |-> matches, success |-> success,
       recovered |-> IF success THEN matches[1] ELSE <<>>]

\* results.attacks of handleSimulateMitm, in push order
MitmAttacks(user, intercepted, c) ==
  (IF c = "caesar" THEN <<CaesarAttack(user, intercepted)>> ELSE <<>>)
  \o (IF c = "affine" THEN <<AffineAttack(user, intercepted)>> ELSE <<>>)
  \o (IF dictFile # Absent
        THEN <<DictionaryAttackEntry(user, intercepted)>> ELSE <<>>)

\* One logAttackResult call per attack, in the same order
RECURSIVE LogAttacks(_, _, _, _)
LogAttacks(rows, username, intercepted, attacks) ==
  IF attacks = <<>> THEN rows
  ELSE LET e == Head(attacks)
       IN  LogAttacks(logAttackResult(rows, username, e.type, intercepted,
                                      e.attempts, e.success, e.recovered),
                      username, intercepted, Tail(attacks))

\* "a,b"
CommaText == <<97, 44, 98>>

\* What a client can send as intercepted: the stored password of a user, the
\* same in lower case, a text with a comma, nothing
Intercepts ==
  (({users[k].storedPassword : k \in 1..Len(users)}
      \cup {StoredLower(users[k]) : k \in 1..Len(users)}) \ {NoText})
  \cup {CommaText, <<>>}

\* "u", "v", ""
MitmUsernames == ServerUsernames \cup {<<118>>, <<>>}

\* The callback of handleSimulateMitm on a parsed body: it appends to
\* results.csv and writes the response, nothing else
SimulateMitm(username, intercepted, c) ==
     IF username = <<>> \/ intercepted = <<>>
       THEN /\ response' = Answer("mitm", 400)
            /\ log' = log
     ELSE IF FindUser(users, username) = 0
       THEN /\ response' = Answer("mitm", 404)
            /\ log' = log
     ELSE \E attacks \in {MitmAttacks(users[FindUser(users, username)],
                                        intercepted, c)} :
              /\ log' = LogAttacks(log, username, intercepted, attacks)
              /\ response' =
                   [Answer("mitm", 200) EXCEPT !.username = username,
                                               !.intercepted = intercepted,
                                               !.attacks = attacks]

HandleSimulateMitm ==
  \E username \in MitmUsernames, intercepted \in Intercepts,
     c \in {"caesar", "affine", "plain"} :
    /\ Serving
    /\ SimulateMitm(username, intercepted, c)
    /\ UNCHANGED <<cipher, pc, text, params, ciphertext, result, encErr,
                   decErr, i, results, matrix>>
    /\ UNCHANGED <<words, ret, dictFile, users>>

\* "by\nBy\n y \r\n\nzz"  |  no file
ServerDictFiles ==
  { <<98, 121, 10, 66, 121, 10, 32, 121, 32, 13, 10, 10, 122, 122>>,
    Absent }

InitServer ==
  \E f \in ServerDictFiles :
    /\ InitCipherRun("server", <<>>, DefaultParams)
    /\ words = <<>>
    /\ NoCall
    /\ dictFile = f
    /\ NoServer

NextServer == HandleRegister \/ HandleSimulateMitm

SpecServer == InitServer /\ [][NextServer]_vars

(***************************************************************************)
(* Properties of /simulate/mitm (SpecServer) *)
(***************************************************************************)

\* The response is the one of a /simulate/mitm request on a known user
MitmAnswered == response.route = "mitm" /\ response.status = 200

\* The target user of the answered request
MitmUser == users[FindUser(users, response.username)]

\* C17: for both the Caesar and the affine brute-force of /simulate/mitm,
\* success is true exactly when some candidate's text equals the target
\* user's stored value case-insensitively, and recovered is the text of the
\* first such candidate (empty when success is false).
C17_BruteForceSuccess ==
  MitmAnswered =>
    \A k \in 1..Len(response.attacks) :
      LET e == response.attacks[k]
      IN  e.type \in {"Caesar Brute-Force", "Affine Brute-Force"} =>
            LET cands == IF e.type = "Caesar Brute-Force"
                           THEN bruteForceCaesar(response.intercepted)
                           ELSE bruteForceAffine(response.intercepted)
                idx == {j \in 1..Len(cands) :
                          toLowerCase(cands[j].text) = StoredLower(MitmUser)}
            IN  /\ e.success <=> idx # {}
                /\ e.recovered =
                     IF idx # {}
                       THEN cands[CHOOSE j \in idx : \A l \in idx : j <= l].text
                       ELSE <<>>

\* The password a weak-mode Caesar or affine user registered with: the
\* stored value decrypted under the key handleRegister encrypted it with
RegisteredPlaintext(user) ==
  IF user.cipher = "caesar"
    THEN caesarDecrypt(user.storedPassword,
                       NumOr(user.params.shift, DefaultShift))
    ELSE affineDecrypt(user.storedPassword, NumOr(user.params.a, DefaultA),
                       NumOr(user.params.b, DefaultB)).value

\* The stored ciphertext of a weak-mode user was sent as intercepted
InterceptedStored ==
  /\ MitmAnswered
  /\ MitmUser.mode = "weak"
  /\ response.intercepted = MitmUser.storedPassword

\* C18: after a weak-mode user registered with password P under Caesar shift
\* 1..25 (or under an affine key with a valid a and b in 0..25), a
\* /simulate/mitm request whose intercepted is the stored ciphertext makes
\* the brute-force of that cipher report success = true and recovered = P.
C18_BruteForceRecoversPlaintext ==
  \A k \in 1..Len(response.attacks) :
    LET e == response.attacks[k]
    IN  ( /\ InterceptedStored
          /\ \/ /\ MitmUser.cipher = "caesar"
                /\ MitmUser.params.shift \in 1..25
                /\ e.type = "Caesar Brute-Force"
             \/ /\ MitmUser.cipher = "affine"
                /\ MitmUser.params.a \in validA
                /\ MitmUser.params.b \in 0..25
                /\ e.type = "Affine Brute-Force" ) =>
          /\ e.success
          /\ e.recovered = RegisteredPlaintext(MitmUser)

\* C19: after a weak-mode Caesar or affine user registered with a password P
\* that is an entry of the wordlist, a /simulate/mitm request whose
\* intercepted is the stored ciphertext gets exactly one 'Dictionary Attack'
\* entry, with success = true, every match equal to P case-insensitively and
\* recovered = the first match; for every registered key, shift 0 and b = 0
\* included.
C19_DictionaryRecoversPlaintext ==
  ( /\ InterceptedStored
    /\ MitmUser.cipher \in {"caesar", "affine"}
    /\ dictFile # Absent
    /\ RegisteredPlaintext(MitmUser) \in Range(ServerWords(dictFile)) ) =>
    LET P == RegisteredPlaintext(MitmUser)
        at == {k \in 1..Len(response.attacks) :
                 response.attacks[k].type = "Dictionary Attack"}
    IN  /\ Cardinality(at) = 1
        /\ \A k \in at :
             LET e == response.attacks[k]
             IN  /\ e.success
                 /\ Len(e.matches) > 0
                 /\ \A j \in 1..Len(e.matches) :
                      toLowerCase(e.matches[j]) = toLowerCase(P)
                 /\ e.recovered = e.matches[1]

C19_Witness ==
  /\ InterceptedStored
  /\ MitmUser.cipher = "caesar"
  /\ MitmUser.params.shift = 0
  /\ MitmUser.storedPassword = <<69, 98>>
  /\ dictFile # Absent
  /\ \E k \in 1..Len(response.attacks) :
       /\ response.attacks[k].type = "Dictionary Attack"
       /\ response.attacks[k].success
       /\ response.attacks[k].matches = <<<<98, 121>>, <<66, 121>>>>
       /\ response.attacks[k].recovered = <<98, 121>>

\* C20: every row appended to the results log has exactly eight
\* comma-separated fields, for every username and intercepted string a
\* request can carry.
C20_EightFields ==
  \A k \in 1..Len(log) : Len(Split(log[k], Comma)) = 8

-----------------------------------------------------------------------------
(* Diffie-Hellman exchange (secure.js, handleDH of server.js, the client of
   app.js).  BigInt arithmetic is exact, so the integers of the model stand
   for it as long as the moduli are small; the 2048-bit prime of DH_PARAMS is
   represented by a small prime. *)

MaxModulus == 7
MaxGenerator == 3
MaxPrivate == 3

Minus == 45
Digit0 == 48
HexLetterBase == 87

DH_PARAMS == [p |-> 23, g |-> 2]

\* generateDHPrivate: an unsigned integer read from random bytes
generateDHPrivate == 0..MaxPrivate

\* BigInt.prototype.toString(radix)
RECURSIVE DigitsOf(_, _)
DigitsOf(n, radix) ==
  LET d == n % radix
      ch == IF d < 10 THEN Digit0 + d ELSE HexLetterBase + d
  IN IF n < radix THEN <<ch>> ELSE Append(DigitsOf(n \div radix, radix), ch)

BigIntToString(n, radix) ==
  IF n < 0 THEN <<Minus>> \o DigitsOf(-n, radix) ELSE DigitsOf(n, radix)

\* BigInt(string) of a decimal string
RECURSIVE ParseDigits(_, _)
ParseDigits(s, acc) ==
  IF Len(s) = 0 THEN acc
  ELSE ParseDigits(Tail(s), 10 * acc + (Head(s) - Digit0))

BigInt(s) ==
  IF Len(s) > 0 /\ Head(s) = Minus THEN -ParseDigits(Tail(s), 0)
  ELSE ParseDigits(s, 0)

\* x || d on a request field that is a string when present
FieldOr(v, d) == IF v = NoText \/ v = <<>> THEN d ELSE v

\* modPow without the squaring of the base
modPowNoSquare(base, exponent, modulus) ==
  LET RECURSIVE Loop(_, _)
      Loop(res, e) ==
        IF e > 0
        THEN Loop(IF JsRem(e, 2) = 1
                  THEN JsRem(res * JsRem(base, modulus), modulus) ELSE res,
                  e \div 2)
        ELSE res
  IN IF modulus = 1 THEN Ok(0)
     ELSE IF modulus = 0 THEN Raise("RangeError")
     ELSE Ok(Loop(1, exponent))

RECURSIVE ModPowLoop(_, _, _, _)
ModPowLoop(res, base, exponent, modulus) ==
  IF exponent > 0
  THEN ModPowLoop(IF JsRem(exponent, 2) = 1
                  THEN JsRem(res * base, modulus) ELSE res,
                  JsRem(base * base, modulus), exponent \div 2, modulus)
  ELSE res

\* modPow; a remainder by 0n throws RangeError
modPow(base, exponent, modulus) ==
  IF modulus = 1 THEN Ok(0)
  ELSE IF modulus = 0 THEN Raise("RangeError")
  ELSE Ok(ModPowLoop(1, JsRem(base, modulus), exponent, modulus))

computeDHPublic(g, privateKey, p) == modPow(g, privateKey, p)

computeDHShared(otherPublic, privateKey, p) == modPow(otherPublic, privateKey, p)

DHModuli == (-2)..MaxModulus
DHGenerators == (-2)..MaxGenerator

NoDHResponse ==
  [route |-> "none", status |-> 0, serverPublic |-> <<>>, sharedKey |-> <<>>]

InitDH ==
  \E p \in DHModuli, g \in DHGenerators :
    /\ InitCipherRun("dh", <<>>, [p |-> p, g |-> g])
    /\ words = <<>>
    /\ NoCall
    /\ dictFile = Absent
    /\ users = <<>>
    /\ log = <<>>
    /\ response = NoDHResponse

\* simulateDHExchange: both sides in one process, on DH_PARAMS
SimulateDHExchange ==
  /\ pc = "start"
  /\ \E clientPrivate \in generateDHPrivate, serverPrivate \in generateDHPrivate :
       LET p == DH_PARAMS.p
           g == DH_PARAMS.g
           clientPublic == computeDHPublic(g, clientPrivate, p).value
           serverPublic == computeDHPublic(g, serverPrivate, p).value
           clientShared == computeDHShared(serverPublic, clientPrivate, p).value
           serverShared == computeDHShared(clientPublic, serverPrivate, p).value
       IN ret' = Ok([client |-> [private |-> BigIntToString(clientPrivate, 16),
                                 public |-> BigIntToString(clientPublic, 16),
                                 shared |-> BigIntToString(clientShared, 16)],
                     server |-> [private |-> BigIntToString(serverPrivate, 16),
                                 public |-> BigIntToString(serverPublic, 16),
                                 shared |-> BigIntToString(serverShared, 16)],
                     keysMatch |-> (clientShared = serverShared)])
  /\ pc' = "simulated"
  /\ UNCHANGED <<cipher, text, params, ciphertext, result, encErr, decErr, i,
                 results, matrix, words, dictFile, users, log, response>>

\* performDHExchange up to the request: the client's key pair, then POST /dh
PerformDHExchangeSend ==
  /\ pc = "start"
  /\ \E clientPrivate \in generateDHPrivate :
       LET clientPublic == computeDHPublic(params.g, clientPrivate, params.p)
       IN IF clientPublic.err # "none"
          THEN /\ pc' = "dhFailed"
               /\ ret' = clientPublic
               /\ UNCHANGED <<i, ciphertext>>
          ELSE /\ pc' = "sent"
               /\ i' = clientPrivate
               /\ ciphertext' = [clientPublic |-> BigIntToString(clientPublic.value, 10),
                                 p |-> BigIntToString(params.p, 10),
                                 g |-> BigIntToString(params.g, 10)]
               /\ UNCHANGED ret
  /\ UNCHANGED <<cipher, text, params, result, encErr, decErr,
                 results, matrix, words, dictFile, users, log, response>>

\* handleDH: the server's key pair and the shared key, both sent back
HandleDH ==
  /\ pc = "sent"
  /\ \E serverPrivate \in generateDHPrivate :
       LET body == ciphertext
           prime == BigInt(FieldOr(body.p, BigIntToString(DH_PARAMS.p, 10)))
           generator == BigInt(FieldOr(body.g, BigIntToString(DH_PARAMS.g, 10)))
           serverPublic == computeDHPublic(generator, serverPrivate, prime)
           sharedKey == computeDHShared(BigInt(body.clientPublic), serverPrivate, prime)
       IN IF serverPublic.err # "none"
          THEN /\ pc' = "dhFailed"
               /\ ret' = serverPublic
               /\ UNCHANGED response
          ELSE /\ pc' = "answered"
               /\ response' = [route |-> "/dh", status |-> 200,
                               serverPublic |-> BigIntToString(serverPublic.value, 10),
                               sharedKey |-> BigIntToString(sharedKey.value, 10)]
               /\ UNCHANGED ret
  /\ UNCHANGED <<cipher, text, params, ciphertext, result, encErr, decErr, i,
                 results, matrix, words, dictFile, users, log>>

\* performDHExchange after the response: the client derives the shared key
PerformDHExchangeReceive ==
  /\ pc = "answered"
  /\ result' = computeDHShared(BigInt(response.serverPublic), i, params.p).value
  /\ pc' = "dhDone"
  /\ UNCHANGED <<cipher, text, params, ciphertext, encErr, decErr, i,
                 results, matrix, attackVars>>

NextDH ==
  \/ SimulateDHExchange
  \/ PerformDHExchangeSend
  \/ HandleDH
  \/ PerformDHExchangeReceive

SpecDH == InitDH /\ [][NextDH]_vars

\* base^exponent mod modulus by repeated multiplication
RECURSIVE PowMod(_, _, _)
PowMod(base, exponent, modulus) ==
  IF exponent = 0 THEN 1 % modulus
  ELSE (base * PowMod(base, exponent - 1, modulus)) % modulus

ClientDerivedKey == result

EndpointSharedKey == BigInt(response.sharedKey)

\* C21 (as stated): for every modulus, generator and private exponents the
\* key the client derives equals the shared key computed by the /dh endpoint.
C21_AgreementForEveryModulus ==
  pc = "dhDone" => ClientDerivedKey = EndpointSharedKey

\* C21 (amended): for every modulus p >= 1, every generator and all private
\* exponents the key the client derives equals the shared key computed by
\* the /dh endpoint, and for a generator g >= 0 both equal g^(ab) mod p, b
\* being an exponent of the server's public value; simulateDHExchange
\* reports keysMatch = true.
C21_KeyAgreement ==
  /\ pc = "dhDone" /\ params.p >= 1 =>
       /\ ClientDerivedKey = EndpointSharedKey
       /\ params.g >= 0 =>
            \E b \in generateDHPrivate :
              /\ BigInt(response.serverPublic) = PowMod(params.g, b, params.p)
              /\ ClientDerivedKey = PowMod(params.g, i * b, params.p)
  /\ pc = "simulated" => ret.value.keysMatch

C21_Witness ==
  /\ pc = "dhDone"
  /\ params.p = 7
  /\ params.g = 3
  /\ i = 3
  /\ BigInt(response.serverPublic) = 3
  /\ ClientDerivedKey = EndpointSharedKey
  /\ ClientDerivedKey = 6

-----------------------------------------------------------------------------
(* /login, GET /user/<name> and the request sequences of the server
   (server.js): users.json is the variable users, results.csv the variable
   log, the last response written is the variable response. *)

MaxAuthLogRows == 1

\* The switch of handleLogin on a plaintext payload, with the key read
\* from the request without the || defaults
LoginEncryptedNoDefaults(body) ==
  CASE body.cipher = "caesar" ->
         Ok(caesarEncrypt(body.payload, body.params.shift))
    [] body.cipher = "affine" ->
         affineEncrypt(body.payload, body.params.a, body.params.b)
    [] body.cipher = "playfair" ->
         playfairEncrypt(body.payload, body.params.key)
    [] body.cipher = "hill" ->
         Ok(hillEncrypt(body.payload,
                        SeqOr(body.params.keyMatrix, DefaultKeyMatrix)))
    [] OTHER -> Ok(body.payload)

\* The switch of handleLogin on a plaintext payload
LoginEncrypted(body) ==
  CASE body.cipher = "caesar" ->
         Ok(caesarEncrypt(body.payload, NumOr(body.params.shift, DefaultShift)))
    [] body.cipher = "affine" ->
         affineEncrypt(body.payload, NumOr(body.params.a, DefaultA),
                       NumOr(body.params.b, DefaultB))
    [] body.cipher = "playfair" ->
         playfairEncrypt(body.payload, SeqOr(body.params.key, DefaultKey))
    [] body.cipher = "hill" ->
         Ok(hillEncrypt(body.payload,
                        SeqOr(body.params.keyMatrix, DefaultKeyMatrix)))
    [] OTHER -> Ok(body.payload)

\* verifyPassword: the derived keys have the same length, so
\* timingSafeEqual compares them
verifyPassword(password, record) ==
  pbkdf2Sync(password, record.salt) = record.derived

LoginAnswer(success) == [route |-> "login", status |-> 200, success |-> success]

\* handleLogin encrypting every payload, whatever its payloadType
LoginReencrypting(us, body) ==
  IF body.username = <<>> \/ body.payload = <<>>
    THEN Answer("login", 400)
  ELSE IF FindUser(us, body.username) = 0
    THEN Answer("login", 404)
  ELSE LET user == us[FindUser(us, body.username)]
           encrypted == LoginEncrypted(body)
       IN  IF encrypted.err # "none" THEN Answer("login", 400)
           ELSE LoginAnswer(user.mode = "weak"
                              /\ encrypted.value = user.storedPassword)

\* The callback of handleLogin on a parsed body: the response.  Both
\* branches of secure mode call verifyPassword(payload, user), so
\* sessionKey has no effect on the response.
Login(us, body) ==
  IF body.username = <<>> \/ body.payload = <<>>
    THEN Answer("login", 400)
  ELSE IF FindUser(us, body.username) = 0
    THEN Answer("login", 404)
  ELSE LET user == us[FindUser(us, body.username)]
       IN  IF user.mode = "weak"
             THEN IF body.payloadType = "ciphertext"
                    THEN LoginAnswer(body.payload = user.storedPassword)
                  ELSE IF body.payloadType = "plaintext"
                    THEN LET encrypted == LoginEncrypted(body)
                         IN  IF encrypted.err # "none"
                               THEN Answer("login", 400)
                               ELSE LoginAnswer(encrypted.value
                                                  = user.storedPassword)
                  ELSE LoginAnswer(FALSE)
           ELSE IF user.mode = "secure"
             THEN LoginAnswer(verifyPassword(body.payload, user))
           ELSE LoginAnswer(FALSE)

\* GET /user/<name>: the record without the password
UserInfo(us, username) ==
  IF FindUser(us, username) = 0 THEN Answer("user", 404)
  ELSE LET user == us[FindUser(us, username)]
       IN  [route |-> "user", status |-> 200, username |-> user.username,
            mode |-> user.mode, cipher |-> user.cipher, params |-> user.params]

\* "u"
AuthUsernames == {<<117>>}

\* "By", "1"
AuthPasswords == {<<66, 121>>, <<49>>}

\* Keys a request can carry; 0 and <<>> are the missing values
AuthParams(c) ==
  CASE c = "caesar" -> {[DefaultParams EXCEPT !.shift = s] : s \in {0, 1}}
    [] c = "affine" ->
         {[DefaultParams EXCEPT !.a = a, !.b = b] : a \in {0, 2, 11}, b \in {0, 1}}
    [] c = "playfair" ->
         {[DefaultParams EXCEPT !.key = k] : k \in {<<>>, <<107>>}}
    [] c = "hill" ->
         {[DefaultParams EXCEPT !.keyMatrix = m] : m \in {<<>>, SingularKeyMatrix}}
    [] OTHER -> {DefaultParams}

AuthCiphers == {"caesar", "affine", "playfair", "hill", "plain"}

AuthRegisterBodies ==
  UNION {
    {[username |-> u, password |-> pw, mode |-> "weak", cipher |-> c,
      params |-> p] :
       u \in AuthUsernames, pw \in AuthPasswords, p \in AuthParams(c)} :
    c \in AuthCiphers }
  \cup
  {[username |-> u, password |-> pw, mode |-> m, cipher |-> "undefined",
    params |-> DefaultParams] :
     u \in AuthUsernames \cup {<<>>}, pw \in AuthPasswords, m \in {"secure", "guest"}}

\* The stored ciphertexts, as an eavesdropper has them
StoredValues ==
  {users[k].storedPassword : k \in 1..Len(users)} \ {NoText}

\* "w" is never registered
LoginUsernames == AuthUsernames \cup {<<119>>, <<>>}

LoginBodies ==
  UNION {
    {[username |-> u, payload |-> pl, payloadType |-> t, cipher |-> c,
      params |-> p] :
       u \in LoginUsernames, pl \in AuthPasswords \cup StoredValues,
       t \in {"plaintext", "ciphertext", "hmac"}, p \in AuthParams(c)} :
    c \in AuthCiphers }

\* "by"
AuthDictFile == <<98, 121>>

\* The /dh request of a client with private exponent MaxPrivate, received
DHRequest ==
  [clientPublic |->
     BigIntToString(computeDHPublic(DH_PARAMS.g, MaxPrivate, DH_PARAMS.p).value, 10),
   p |-> BigIntToString(DH_PARAMS.p, 10),
   g |-> BigIntToString(DH_PARAMS.g, 10)]

InitAuth ==
  /\ cipher = "auth"
  /\ pc = "sent"
  /\ text = <<>>
  /\ params = DH_PARAMS
  /\ ciphertext = DHRequest
  /\ result = NoText
  /\ encErr = "pending"
  /\ decErr = "pending"
  /\ i = MaxPrivate
  /\ results = <<>>
  /\ matrix = <<>>
  /\ words = <<>>
  /\ NoCall
  /\ dictFile = AuthDictFile
  /\ NoServer

RegisterRequest ==
  \E body \in AuthRegisterBodies :
    /\ Register(body)
    /\ UNCHANGED <<cipher, pc, text, params, ciphertext, result, encErr,
                   decErr, i, results, matrix>>
    /\ UNCHANGED <<words, ret, dictFile, log>>

\* handleLogin followed by a saveUsers that keeps the accepted payload
HandleLoginSaving ==
  \E body \in LoginBodies :
    /\ response' = Login(users, body)
    /\ users' = IF response'.status = 200 /\ response'.success
                  THEN [users EXCEPT ![FindUser(users, body.username)].storedPassword
                                       = body.payload]
                  ELSE users
    /\ UNCHANGED <<cipher, pc, text, params, ciphertext, result, encErr,
                   decErr, i, results, matrix>>
    /\ UNCHANGED <<words, ret, dictFile, log>>

HandleLogin ==
  \E body \in LoginBodies :
    /\ response' = Login(users, body)
    /\ UNCHANGED <<cipher, pc, text, params, ciphertext, result, encErr,
                   decErr, i, results, matrix>>
    /\ UNCHANGED <<words, ret, dictFile, users, log>>

HandleUser ==
  \E username \in LoginUsernames \ {<<>>} :
    /\ response' = UserInfo(users, username)
    /\ UNCHANGED <<cipher, pc, text, params, ciphertext, result, encErr,
                   decErr, i, results, matrix>>
    /\ UNCHANGED <<words, ret, dictFile, users, log>>

\* "1\n1"
TwoLines == <<49, 10, 49>>

\* What an eavesdropper sends as intercepted: a stored ciphertext, a text
\* of its own, a text with a line break, nothing
MitmRequest ==
  \E username \in LoginUsernames,
     intercepted \in StoredValues \cup {<<49>>, TwoLines, <<>>},
     c \in {"caesar", "plain"} :
    /\ Len(log) < MaxAuthLogRows
    /\ SimulateMitm(username, intercepted, c)
    /\ UNCHANGED <<cipher, pc, text, params, ciphertext, result, encErr,
                   decErr, i, results, matrix>>
    /\ UNCHANGED <<words, ret, dictFile, users>>

NextAuth ==
  \/ RegisterRequest
  \/ HandleLogin
  \/ HandleUser
  \/ MitmRequest
  \/ HandleDH

SpecAuth == InitAuth /\ [][NextAuth]_vars

(***************************************************************************)
(* Properties of the request sequences (SpecAuth) *)
(***************************************************************************)

\* C22: the stored user records are never changed by authentication or
\* attack operations: a /login, /simulate/mitm, /dh or /user request,
\* successful or not, leaves the user store as it was; only /register can
\* change it.
C22_StoreFrame ==
  [][ /\ response'.route \in {"login", "mitm", "/dh", "user"} => users' = users
      /\ users' # users => response'.route = "register" ]_vars

C22_Witness ==
  /\ Len(users) = 1
  /\ users[1].mode = "weak"
  /\ log # <<>>
  /\ pc = "answered"
  /\ response.route = "login"
  /\ response.status = 200
  /\ response.success

-----------------------------------------------------------------------------
(* Concurrent /register requests.  parseBody collects the chunks of a
   request and runs the handler's callback on its 'end' event; the callback
   itself (loadUsers, the checks, push, saveUsers, the response) is
   synchronous.  results holds the requests whose body is being received. *)

MaxInFlight == 2

\* "u" with two passwords and two modes, "v", and a body without username
RaceBodies ==
  {[username |-> <<117>>, password |-> pw, mode |-> m, cipher |-> "caesar",
    params |-> [DefaultParams EXCEPT !.shift = 1]] :
     pw \in {<<66, 121>>, <<49>>}, m \in {"weak", "secure"}}
  \cup
  {[username |-> u, password |-> <<66, 121>>, mode |-> "weak",
    cipher |-> "caesar", params |-> [DefaultParams EXCEPT !.shift = 1]] :
     u \in {<<118>>, <<>>}}

Remove(s, k) == SubSeq(s, 1, k - 1) \o SubSeq(s, k + 1, Len(s))

InitRegister ==
  /\ InitCipherRun("register", <<>>, DefaultParams)
  /\ NoAttack

\* parseBody: a request starts arriving
ParseBody ==
  /\ Len(results) < MaxInFlight
  /\ \E body \in RaceBodies : results' = Append(results, body)
  /\ UNCHANGED <<cipher, pc, text, params, ciphertext, result, encErr,
                 decErr, i, matrix, attackVars>>

\* The 'end' event of one of the requests: the callback of handleRegister
RegisterCallback ==
  \E k \in 1..Len(results) :
    /\ Register(results[k])
    /\ results' = Remove(results, k)
    /\ UNCHANGED <<cipher, pc, text, params, ciphertext, result, encErr,
                   decErr, i, matrix>>
    /\ UNCHANGED <<words, ret, dictFile, log>>

NextRegister == ParseBody \/ RegisterCallback

SpecRegister == InitRegister /\ [][NextRegister]_vars

\* The request handled by a step is well-formed and names a stored user
Duplicate(body) ==
  /\ body.username # <<>>
  /\ body.password # <<>>
  /\ body.mode # ""
  /\ \E k \in 1..Len(users) : users[k].username = body.username

\* C23: after any sequence of /register requests, handled in any order, the
\* user store holds at most one record per username; a /register for a
\* username already present is answered 409 and leaves the store unchanged,
\* and the records already stored are kept as they are.
C23_UsernameUnique ==
  /\ [](\A j, k \in 1..Len(users) :
          users[j].username = users[k].username => j = k)
  /\ [][ /\ \A k \in 1..Len(results) :
              (results' = Remove(results, k) /\ Duplicate(results[k])) =>
                /\ response' = Answer("register", 409)
                /\ users' = users
         /\ Len(users') >= Len(users)
         /\ \A k \in 1..Len(users) : users'[k] = users[k] ]_vars

C23_Witness ==
  /\ Len(users) = 2
  /\ users[1].username = <<117>>
  /\ users[1].mode = "weak"
  /\ users[1].storedPassword = <<67, 122>>
  /\ users[2].username = <<118>>
  /\ response = Answer("register", 409)
  /\ results = <<>>

-----------------------------------------------------------------------------
(* Round trips on arbitrary text (SpecHill, SpecPlayfair) *)

\* t upper-cased, its non-letters removed, then 'X' appended up to the next
\* multiple of 3
HillCanonical(t) ==
  LET s == SelectSeq(toUpperCase(t), IsUpper)
  IN  s \o [k \in 1..((3 - (Len(s) % 3)) % 3) |-> CharX]

\* C24: for every invertible key matrix M and every text T,
\* hillDecrypt(hillEncrypt(T, M), M) equals T upper-cased, with non-letters
\* removed, right-padded with 'X' to the next multiple of 3; the ciphertext
\* has exactly that padded length and consists only of letters A..Z.
C24_HillRoundTripArbitrary ==
  /\ (cipher = "hill" /\ encErr = "none") =>
       /\ Len(ciphertext) = Len(HillCanonical(text))
       /\ \A k \in 1..Len(ciphertext) : IsUpper(ciphertext[k])
  /\ (/\ cipher = "hill" /\ pc = "done" /\ encErr = "none"
      /\ CoprimeTo26(det3x3(params.keyMatrix) % 26)) =>
       /\ decErr = "none"
       /\ result = HillCanonical(text)

\* " zB" comes back as "ZBX"
C24_Witness ==
  /\ cipher = "hill" /\ pc = "done" /\ encErr = "none" /\ decErr = "none"
  /\ params.keyMatrix[1] = <<32, -2, 27>>
  /\ text = <<32, 122, 66>>
  /\ Len(ciphertext) = 3
  /\ result = <<90, 66, 88>>

\* The 2-letter groups of a prepared text, concatenated
RECURSIVE Concat(_)
Concat(groups) ==
  IF groups = <<>> THEN <<>> ELSE Head(groups) \o Concat(Tail(groups))

\* C25: for every key K and every text T, playfairEncrypt(T, K) has even
\* length and uses only the 25 grid letters, and playfairDecrypt of it under
\* K equals the concatenation of the 2-letter groups produced by text
\* preparation of T.
C25_PlayfairRoundTripArbitrary ==
  cipher = "playfair" =>
    /\ pc = "encrypted" =>
         /\ encErr = "none"
         /\ Len(ciphertext) % 2 = 0
         /\ Len(ciphertext) = 2 * Len(preparePlayfairText(text))
         /\ \A k \in 1..Len(ciphertext) : ciphertext[k] \in Range(PlayfairAlphabet)
    /\ (pc = "done" /\ encErr = "none") =>
         /\ decErr = "none"
         /\ result = Concat(preparePlayfairText(text))

\* "cJ-I" is prepared as CI IX
C25_Witness ==
  /\ cipher = "playfair" /\ pc = "done" /\ encErr = "none" /\ decErr = "none"
  /\ params.key = <<107, 101, 121>>
  /\ text = <<99, 74, 45, 73>>
  /\ result = <<67, 73, 73, 88>>
  /\ ciphertext # result

\* C26: every 2-letter group produced by Playfair text preparation consists
\* of two different letters, for every input text, so no group is encrypted
\* with both symbols at the same grid position.
C26_GroupsDistinct ==
  (cipher = "playfair" /\ pc = "encrypted") =>
    \A k \in 1..Len(preparePlayfairText(text)) :
      preparePlayfairText(text)[k][1] # preparePlayfairText(text)[k][2]

\* C27: whenever /register answers 200 with ok: true for a username u, the
\* user store contains a record for u after the request, for every value of
\* the request's mode field.  (AuthUsernames holds the one username the
\* requests of SpecAuth register.)
C27_RegisteredAfterOk ==
  (response.route = "register" /\ response.status = 200) =>
    \A u \in AuthUsernames : \E k \in 1..Len(users) : users[k].username = u

\* The same for the modes 'weak' and 'secure' only
C27_RegisteredAfterOkKnownModes ==
  [][ \A body \in AuthRegisterBodies :
        ( /\ body.mode \in {"weak", "secure"}
          /\ Register(body)
          /\ response'.status = 200 ) =>
          \E k \in 1..Len(users') : users'[k].username = body.username ]_vars

\* The /login request that sends payload with the cipher and params of user
LoginAs(user, payload, payloadType, c, p) ==
  [username |-> user.username, payload |-> payload,
   payloadType |-> payloadType, cipher |-> c, params |-> p]

\* user was registered in weak mode with password P
RegisteredWith(user, P) ==
  /\ user.mode = "weak"
  /\ RegisterStored([password |-> P, cipher |-> user.cipher,
                     params |-> user.params]) = Ok(user.storedPassword)

\* C28: once a weak-mode user has been registered with password P, cipher c
\* and parameters k, every later /login for that username with payloadType
\* 'plaintext', payload P and the same c and k answers success = true, for
\* all four ciphers and the plaintext fallback and for every key value
\* (shift 0, affine a = 0 or b = 0, the empty Playfair key included).
C28_LoginAfterRegistration ==
  cipher = "auth" =>
    \A k \in 1..Len(users), P \in AuthPasswords :
      RegisteredWith(users[k], P) =>
        Login(users, LoginAs(users[k], P, "plaintext", users[k].cipher,
                             users[k].params)) = LoginAnswer(TRUE)

\* "1" registered under Hill is stored as "": only a plaintext login
\* succeeds then
C28_Witness ==
  /\ Len(users) = 1
  /\ RegisteredWith(users[1], <<49>>)
  /\ users[1].cipher = "hill"
  /\ users[1].storedPassword = <<>>
  /\ response = LoginAnswer(TRUE)

\* C29 (as stated): for a weak-mode user, a /login with payloadType
\* 'ciphertext' whose payload equals the stored ciphertext answers
\* success = true, whatever the cipher and params fields of the request.
C29_ReplayAccepted ==
  cipher = "auth" =>
    \A k \in 1..Len(users) :
      users[k].mode = "weak" =>
        \A c \in AuthCiphers :
          \A p \in AuthParams(c) :
            Login(users, LoginAs(users[k], users[k].storedPassword,
                                 "ciphertext", c, p)) = LoginAnswer(TRUE)

\* C29 (amended): for a weak-mode user whose stored ciphertext is not
\* empty, a /login with payloadType 'ciphertext' whose payload equals the
\* stored ciphertext answers success = true, whatever the cipher and params
\* fields of the request, and a non-empty payload that differs from it
\* answers success = false; a /login changes neither the user store nor the
\* log, so the same request is accepted any number of times in a row.
C29_ReplayAcceptedNonEmpty ==
  /\ [](cipher = "auth" =>
          \A k \in 1..Len(users) :
            (users[k].mode = "weak" /\ users[k].storedPassword # <<>>) =>
              \A c \in AuthCiphers :
                \A p \in AuthParams(c) :
                  /\ Login(users, LoginAs(users[k], users[k].storedPassword,
                                          "ciphertext", c, p))
                       = LoginAnswer(TRUE)
                  /\ \A pl \in (AuthPasswords \cup StoredValues)
                                 \ {users[k].storedPassword, <<>>} :
                       Login(users, LoginAs(users[k], pl, "ciphertext", c, p))
                         = LoginAnswer(FALSE))
  /\ [][response'.route = "login" => (users' = users /\ log' = log)]_vars

\* "By" registered under affine a = 11, b = 1 is stored as "Mf"; the replay
\* is accepted under another cipher field
C29_Witness ==
  /\ Len(users) = 1
  /\ users[1].mode = "weak"
  /\ users[1].cipher = "affine"
  /\ users[1].storedPassword = <<77, 102>>
  /\ Login(users, LoginAs(users[1], <<77, 102>>, "ciphertext", "hill",
                          DefaultParams)) = LoginAnswer(TRUE)
  /\ response = LoginAnswer(TRUE)

\* The rows of results.csv after its header: what the appended lines are
\* once the file is split at its line breaks
RECURSIVE FileRows(_)
FileRows(lines) ==
  IF lines = <<>> THEN <<>>
  ELSE Split(Head(lines), NewLine) \o FileRows(Tail(lines))

\* The row of one attack entry of a /simulate/mitm response
EntryRow(resp, e) ==
  logAttackResult(<<>>, resp.username, e.type, resp.intercepted, e.attempts,
                  e.success, e.recovered)[1]

\* A step leaves the rows of the file in place and, when it is an answered
\* /simulate/mitm request, adds one row per attack entry in their order
AppendsEntries ==
  LET old == FileRows(log)
      new == FileRows(log')
      answered == response'.route = "mitm" /\ response'.status = 200
  IN  /\ Len(new) >= Len(old)
      /\ SubSeq(new, 1, Len(old)) = old
      /\ answered =>
           /\ Len(new) = Len(old) + Len(response'.attacks)
           /\ \A j \in 1..Len(response'.attacks) :
                new[Len(old) + j] = EntryRow(response', response'.attacks[j])
      /\ ~answered => log' = log

\* C30: the results log is append-only and matches the responses: each
\* /simulate/mitm request appends exactly one row per attack entry of its
\* response, in the order of those entries, and appends nothing when it is
\* rejected (400, 404); rows already in the log are never modified or
\* removed by any request.
C30_LogAppendOnly == [][AppendsEntries]_vars

\* The same for the requests whose intercepted text has no line break
C30_LogAppendOnlyOneLine ==
  [][ (response'.route = "mitm" /\ response'.status = 200
         => NewLine \notin Range(response'.intercepted))
      => AppendsEntries ]_vars

====
